---- MODULE Spec2Model ----
(***************************************************************************)
(* Model of the login sequencer (login.py, AzureADLogin), of the           *)
(* dashboard task registry (app.py, process_outputs and its workers) and   *)
(* of the runs of the scripts that share the session files (login.py main, *)
(* run.py and book_room.py: session store, login_with_cookies, booking).   *)
(*                                                                         *)
(* Strings that the code searches with `in` are sequences of word tokens;  *)
(* a needle is a token sequence and containment is contiguous-subsequence  *)
(* search.  A Python dict is a function whose DOMAIN is its key set.       *)
(* The debug dumps login() writes on its way (initial_response.html,       *)
(* mfa_page.html, ...) are assumed to succeed and are not part of the      *)
(* state; the write of last_response.html, which decides the return value  *)
(* of the ambiguous case, can fail.  A session file keeps its cookies in   *)
(* insertion order, as the dict json.load returns does.                    *)
(***************************************************************************)
EXTENDS Integers, Sequences, FiniteSets, TLC

(* ------------------------------ bounds -------------------------------- *)
\* largest timeout argument given to wait_for_auth_approval
MaxTimeout == 4
\* longest time one poll request may take beyond the sleep
MaxReqTime == 1
\* number of start requests the dashboard receives in one run
MaxRequests == 2
\* most lines a dashboard subprocess prints
MaxLines == 1
\* most runs of the scripts that share the session files
MaxRuns == 2
\* largest timeout argument of wait_for_manual_login, in seconds
MaxWait == 2
\* number of start requests in the runs that are followed to their end
MaxStarts == 1
\* most agenda items in the calendar page
MaxItems == 3
\* most line ends among the first characters of a short report
MaxNewlines == 2
\* largest max_retries argument of smart_wait_and_retry
MaxRetries == 4
\* script elements and form elements of a document
MaxScripts == 2
MaxForms == 2

(* --------------------------- string helpers --------------------------- *)
\* str.lower() on one token
LowerTok(t) ==
    CASE t = "Login" -> "login"
      [] t = "SAML" -> "saml"
      [] t = "Request" -> "request"
      [] t = "Auth" -> "auth"
      [] t = "/common/SAS/Process" -> "/common/sas/process"
      [] t = "/common/SAS/End" -> "/common/sas/end"
      [] t = "/common/SAS/Begin" -> "/common/sas/begin"
      [] t = "Authenticator" -> "authenticator"
      [] t = "ConvergedTFA" -> "convergedtfa"
      [] t = "PhoneAppNotification" -> "phoneappnotification"
      [] t = "displaySign" -> "displaysign"
      [] t = "idRichContext_DisplaySign" -> "idrichcontext_displaysign"
      [] t = "Stay signed in" -> "stay signed in"
      [] t = "KmsiInterrupt" -> "kmsiinterrupt"
      [] t = "Sign out" -> "sign out"
      [] t = "Error" -> "error"
      [] t = "Welcome" -> "welcome"
      [] OTHER -> t

\* str.lower()
Lower(s) == [i \in 1..Len(s) |-> LowerTok(s[i])]

\* needle in hay
Contains(hay, needle) ==
    \E i \in 0..(Len(hay) - Len(needle)) :
        SubSeq(hay, i + 1, i + Len(needle)) = needle

(* ------------------------------- dicts -------------------------------- *)
EmptyDict == [k \in {} |-> ""]
Has(d, k) == k \in DOMAIN d
Get(d, k, default) == IF k \in DOMAIN d THEN d[k] ELSE default
Put(d, k, v) == [x \in (DOMAIN d) \cup {k} |-> IF x = k THEN v ELSE d[x]]

(* -------------------------------- URLs -------------------------------- *)
\* None and '' (both falsy)
NoUrl == [scheme |-> "", host |-> <<>>, path |-> <<>>]
Url(scheme, host, path) == [scheme |-> scheme, host |-> host, path |-> path]
Rel(path) == [scheme |-> "", host |-> <<>>, path |-> path]
UrlStr(u) == (IF u.scheme = "" THEN <<>> ELSE <<u.scheme>>) \o u.host \o u.path

TargetHost == <<"learning.london.edu">>
InstructureHost == <<"london.instructure.com">>
MsHost == <<"login", ".", "microsoft", "online.com">>

U_home == Url("https://", TargetHost, <<"/">>)
U_courses == Url("https://", TargetHost, <<"/courses">>)
U_target_login == Url("https://", TargetHost, <<"/", "Login", "/", "saml">>)
U_canvas == Url("https://", InstructureHost, <<"/">>)
U_ms_authorize == Url("https://", MsHost, <<"/common/o", "auth", "2/authorize">>)
U_ms_login == Url("https://", MsHost, <<"/common/", "login">>)
U_ms_process == Url("https://", MsHost, <<"/common/SAS/Process", "Auth">>)
U_ms_kmsi == Url("https://", MsHost, <<"/kmsi">>)
U_other == Url("https://", <<"portal.example">>, <<"/">>)

make_absolute_url(url, base_url) ==
    IF url = NoUrl THEN url
    ELSE IF url.scheme \in {"http://", "https://"} THEN url
    ELSE Url(base_url.scheme, base_url.host, url.path)

(* ------------------------------- pages -------------------------------- *)
Script(marker, match, wellformed, obj) ==
    [marker |-> marker, match |-> match, wellformed |-> wellformed, obj |-> obj]
Input(name, hasValue, value) == [name |-> name, hasValue |-> hasValue, value |-> value]
Form(id, action, inputs) == [id |-> id, action |-> action, inputs |-> inputs]
Div(id, class, text) == [id |-> id, class |-> class, text |-> text]
Html(url, body, scripts, forms, divs) ==
    [url |-> url, body |-> body, scripts |-> scripts, forms |-> forms, divs |-> divs]

CfgLogin == [urlPost |-> Rel(<<"/common/", "login">>), sFT |-> "ft1", sCtx |-> "ctx1",
             canary |-> "can1"]
CfgNoUrl == [sFT |-> "ft1", apiCanary |-> "can2", sessionId |-> "sid"]
CfgMfa == [urlPost |-> Rel(<<"/common/SAS/Process", "Auth">>),
           urlEndAuth |-> Rel(<<"/common/SAS/End", "Auth">>),
           sFT |-> "ft2", sFTName |-> "FlowToken", sCtx |-> "ctx2"]
CfgMfaWait == [urlEndAuth |-> Rel(<<"/common/SAS/End", "Auth">>), sFT |-> "ft3",
               sCtx |-> "ctx2"]
CfgMfaBegin == [urlBeginAuth |-> Rel(<<"/common/SAS/Begin", "Auth">>),
                urlEndAuth |-> Rel(<<"/common/SAS/End", "Auth">>), sFT |-> "ft2"]
CfgMfaBeginOnly == [urlBeginAuth |-> Rel(<<"/common/SAS/Begin", "Auth">>), sFT |-> "ft2"]
CfgKmsi == [urlPost |-> Rel(<<"/kmsi">>),
            oPostParams |-> [LoginOptions |-> "3", flowToken |-> "ft4", login |-> "old"]]
CfgSaml == [urlPost |-> Url("https://", MsHost, <<"/saml2?", "SAML", "Request", "=x">>)]

PageIds ==
    {"home", "canvas", "courses_err", "login_cfg", "login_form", "noparse", "cfg_nourl",
     "form_noaction", "mfa", "mfa_wait", "mfa_begin", "mfa_beginonly", "mfa_nocfg",
     "kmsi", "kmsi_form", "kmsi_bare", "error", "error_bare", "blank", "saml_cfg",
     "saml_form", "form_rel", "error_signout", "portal"}

\* the HTML documents the servers of the model can answer with
Page(id) ==
    CASE id = "home" ->
           Html(U_home, <<"Welcome", "logout">>, <<>>, <<>>, <<>>)
      [] id = "canvas" ->
           Html(U_canvas, <<"Welcome">>, <<>>, <<>>, <<>>)
      [] id = "courses_err" ->
           Html(U_courses, <<"Error", "Authenticator">>, <<>>, <<>>, <<>>)
      [] id = "login_cfg" ->
           Html(U_ms_authorize, <<>>, <<Script(TRUE, TRUE, TRUE, CfgLogin)>>, <<>>, <<>>)
      [] id = "login_form" ->
           Html(U_ms_login, <<>>, <<>>,
                <<Form("f1", U_ms_login,
                       <<Input("loginfmt", FALSE, ""), Input("flowToken", TRUE, "ft0"),
                         Input("", TRUE, "anon")>>)>>, <<>>)
      [] id = "noparse" ->
           Html(U_ms_login, <<>>, <<Script(TRUE, TRUE, FALSE, EmptyDict)>>, <<>>, <<>>)
      [] id = "cfg_nourl" ->
           Html(U_ms_login, <<>>, <<Script(TRUE, TRUE, TRUE, CfgNoUrl)>>, <<>>, <<>>)
      [] id = "form_noaction" ->
           Html(U_ms_login, <<>>, <<Script(FALSE, FALSE, TRUE, EmptyDict)>>,
                <<Form("f1", NoUrl, <<Input("passwd", FALSE, "")>>)>>, <<>>)
      [] id = "form_rel" ->
           Html(U_ms_login, <<>>, <<>>,
                <<Form("f1", Rel(<<"/common/", "login">>), <<Input("ctx", TRUE, "c")>>)>>,
                <<>>)
      [] id = "mfa" ->
           Html(U_ms_login, <<"Authenticator">>, <<Script(TRUE, TRUE, TRUE, CfgMfa)>>, <<>>,
                <<Div("idRichContext_DisplaySign", "displaySign", "12-34")>>)
      [] id = "mfa_wait" ->
           Html(U_ms_process, <<"Authenticator">>, <<Script(TRUE, TRUE, TRUE, CfgMfaWait)>>,
                <<>>, <<Div("", "row", ""), Div("", "displaySign", "12-34")>>)
      [] id = "mfa_begin" ->
           Html(U_ms_login, <<"PhoneAppNotification">>,
                <<Script(TRUE, TRUE, TRUE, CfgMfaBegin)>>, <<>>, <<>>)
      [] id = "mfa_beginonly" ->
           Html(U_ms_login, <<"PhoneAppNotification">>,
                <<Script(TRUE, TRUE, TRUE, CfgMfaBeginOnly)>>, <<>>, <<>>)
      [] id = "mfa_nocfg" ->
           Html(U_ms_login, <<"ConvergedTFA">>, <<>>, <<>>,
                <<Div("idRichContext_DisplaySign", "", "")>>)
      [] id = "kmsi" ->
           Html(U_ms_kmsi, <<"KmsiInterrupt">>, <<Script(TRUE, TRUE, TRUE, CfgKmsi)>>,
                <<>>, <<>>)
      [] id = "kmsi_form" ->
           Html(U_ms_kmsi, <<"Stay signed in">>, <<>>,
                <<Form("f2", U_ms_kmsi,
                       <<Input("LoginOptions", TRUE, "0"), Input("ctx", TRUE, "c")>>)>>,
                <<>>)
      [] id = "kmsi_bare" ->
           Html(U_ms_kmsi, <<"Stay signed in">>, <<Script(TRUE, TRUE, TRUE, CfgNoUrl)>>,
                <<>>, <<>>)
      [] id = "error" ->
           Html(U_ms_login, <<"Error">>, <<Script(TRUE, TRUE, TRUE, CfgLogin)>>, <<>>,
                <<Div("passwordError", "", "bad password")>>)
      [] id = "error_bare" ->
           Html(U_other, <<"incorrect">>, <<>>, <<>>, <<>>)
      [] id = "blank" ->
           Html(U_other, <<>>, <<>>, <<>>, <<>>)
      [] id = "error_signout" ->
           Html(U_ms_login, <<"Error", "Sign out">>, <<>>, <<>>,
                <<Div("errorText", "", " account blocked ")>>)
      [] id = "portal" ->
           Html(U_other, <<"Welcome", "logout">>, <<>>, <<>>, <<>>)
      [] id = "saml_cfg" ->
           Html(U_ms_authorize, <<>>, <<Script(TRUE, TRUE, TRUE, CfgSaml)>>, <<>>, <<>>)
      [] id = "saml_form" ->
           Html(U_target_login, <<>>, <<>>,
                <<Form("", NoUrl, <<Input("RelayState", TRUE, "r")>>),
                  Form("", U_ms_login,
                       <<Input("SAMLRequest", TRUE, "req"), Input("RelayState", TRUE, "r")>>)>>,
                <<>>)

\* tokens an element contributes to response.text
RECURSIVE DivText(_)
DivText(divs) ==
    IF divs = <<>> THEN <<>>
    ELSE <<divs[1].id, divs[1].class, divs[1].text>> \o DivText(Tail(divs))

\* response.text
Text(page) == page.body \o DivText(page.divs)

(* --------------------------- page inspector --------------------------- *)
RECURSIVE ConfigFrom(_, _)
ConfigFrom(scripts, config) ==
    IF scripts = <<>> THEN config
    ELSE LET s == scripts[1]
         IN  ConfigFrom(Tail(scripts),
                        IF s.marker /\ s.match /\ s.wellformed THEN s.obj ELSE config)

extract_config_from_script(page) == ConfigFrom(page.scripts, EmptyDict)

\* the token fields shared by the for_mfa form and the manual fallback form
TokenFields(config) ==
    LET d1 == IF Has(config, "sFT")
              THEN Put(EmptyDict, Get(config, "sFTName", "flowToken"), config["sFT"])
              ELSE EmptyDict
        d2 == IF Has(config, "sCtx") THEN Put(d1, "ctx", config["sCtx"]) ELSE d1
        d3 == IF Has(config, "canary") THEN Put(d2, "canary", config["canary"])
              ELSE IF Has(config, "apiCanary") THEN Put(d2, "canary", config["apiCanary"])
              ELSE d2
    IN  IF Has(config, "hpgrequestid") \/ Has(config, "sessionId")
        THEN Put(d3, "hpgrequestid",
                 Get(config, "hpgrequestid", Get(config, "sessionId", "")))
        ELSE d3

ManualFields(username, password) ==
    [i13 |-> "0", login |-> username, loginfmt |-> username, type |-> "11",
     LoginOptions |-> "3", lrt |-> "", lrtPartition |-> "", hisRegion |-> "",
     hisScaleUnit |-> "", passwd |-> password, ps |-> "2", psRNGCDefaultType |-> "",
     psRNGCEntropy |-> "", psRNGCSLK |-> "", PPSX |-> "", NewUser |-> "1",
     FoundMSAs |-> "", fspost |-> "0", i21 |-> "0", CookieDisclosure |-> "0",
     IsFidoSupported |-> "1", isSignupPost |-> "0", isRecoveryAttemptPost |-> "0",
     i19 |-> "1234"]

\* d1 updated with every entry of d2
Update(d1, d2) ==
    [k \in (DOMAIN d1) \cup (DOMAIN d2) |-> IF k \in DOMAIN d2 THEN d2[k] ELSE d1[k]]

\* the pre-filled parameter set is preferred whatever the form is built for
build_form_data_PostParamsFirst(config, username, password, for_mfa) ==
    IF Has(config, "oPostParams")
    THEN LET f0 == config["oPostParams"]
             f1 == IF username # "" THEN Put(Put(f0, "login", username), "loginfmt", username)
                   ELSE f0
         IN  IF password # "" THEN Put(f1, "passwd", password) ELSE f1
    ELSE IF for_mfa THEN TokenFields(config)
    ELSE Update(TokenFields(config), ManualFields(username, password))

\* username / password "" stand for None (both falsy)
build_form_data_from_config(config, username, password, for_mfa) ==
    IF for_mfa THEN TokenFields(config)
    ELSE IF Has(config, "oPostParams")
    THEN LET f0 == config["oPostParams"]
             f1 == IF username # "" THEN Put(Put(f0, "login", username), "loginfmt", username)
                   ELSE f0
         IN  IF password # "" THEN Put(f1, "passwd", password) ELSE f1
    ELSE Update(TokenFields(config), ManualFields(username, password))

\* an input is kept only when it has a value
RECURSIVE InputsWithValueToDict(_, _)
InputsWithValueToDict(inputs, d) ==
    IF inputs = <<>> THEN d
    ELSE LET i == inputs[1]
         IN  InputsWithValueToDict(Tail(inputs),
                                   IF i.name # "" /\ i.hasValue THEN Put(d, i.name, i.value)
                                   ELSE d)

RECURSIVE InputsToDict(_, _)
InputsToDict(inputs, d) ==
    IF inputs = <<>> THEN d
    ELSE LET i == inputs[1]
         IN  InputsToDict(Tail(inputs),
                          IF i.name # "" THEN Put(d, i.name, IF i.hasValue THEN i.value ELSE "")
                          ELSE d)

\* (None, None) is found = FALSE
NoForm == [found |-> FALSE, data |-> EmptyDict, action |-> NoUrl]

\* form_id "" stands for None
extract_form_data(page, form_id) ==
    LET idx == {i \in 1..Len(page.forms) : form_id = "" \/ page.forms[i].id = form_id}
    IN  IF idx = {} THEN NoForm
        ELSE LET form == page.forms[CHOOSE i \in idx : \A j \in idx : i <= j]
             IN  [found |-> TRUE, data |-> InputsToDict(form.inputs, EmptyDict),
                  action |-> form.action]

SamlNames == {"SAMLRequest", "SAMLResponse", "RelayState"}

RECURSIVE extract_saml_form_from(_)
extract_saml_form_from(forms) ==
    IF forms = <<>> THEN NoForm
    ELSE LET form == forms[1]
             has_saml == \E i \in 1..Len(form.inputs) : form.inputs[i].name \in SamlNames
         IN  IF has_saml /\ form.action # NoUrl
             THEN [found |-> TRUE, data |-> InputsToDict(form.inputs, EmptyDict),
                   action |-> form.action]
             ELSE extract_saml_form_from(Tail(forms))

extract_saml_form(page) == extract_saml_form_from(page.forms)

\* the approval number, "" when the div is empty, "None" when there is no div
extract_approval_number(page) ==
    LET byId == {i \in 1..Len(page.divs) : page.divs[i].id = "idRichContext_DisplaySign"}
        byClass == {i \in 1..Len(page.divs) : page.divs[i].class = "displaySign"}
        first(S) == CHOOSE i \in S : \A j \in S : i <= j
    IN  IF byId # {} THEN page.divs[first(byId)].text
        ELSE IF byClass # {} THEN page.divs[first(byClass)].text
        ELSE "None"


(* ------------------------------- state -------------------------------- *)
VARIABLES
    pc,             \* position of login(): the next request point
    initial_url,    \* argument of login()
    response,       \* login()'s response: [id, status]
    result,         \* what login() returned: "None" or "session"
    outcome,        \* which return statement was taken
    sent,           \* the requests sent so far, in order
    lastData,       \* form data of the last POST
    kmsiSeen,       \* step 5 saw the stay-signed-in marker
    parseFailAt,    \* step at which neither config, form nor URL was found
    badAt,          \* index in sent of the first non-2xx response
    excAt,          \* index in sent of the first request the transport failed
    challenge,      \* wait_for_auth_approval: the response it was given
    timeout,        \* wait_for_auth_approval: its timeout argument
    elapsed,        \* wait_for_auth_approval: time.time() - start_time
    polls,          \* wait_for_auth_approval: poll requests sent
    poll_response,  \* wait_for_auth_approval: the last poll response
    surfaced,       \* the approval number printed to the operator
    waitReturn,     \* how wait_for_auth_approval returned
    printed,        \* the verdict login() printed for the final response
    app,            \* the script of the current run: "login", "run" or "book"
    bpc,            \* position of the current run
    runs,           \* runs started so far
    driver,         \* self.driver is set
    files,          \* the session files: name -> [state, data]
    browser,        \* the cookies the browser (login.py: the requests session) holds
    cookies,        \* self.cookies: name -> attributes, in insertion order
    current_url,    \* driver.current_url
    wait_timeout,   \* wait_for_manual_login: its timeout argument
    waited,         \* wait_for_manual_login: time.time() - start_time
    restored,       \* how load_and_restore_cookies returned
    injected,       \* the cookies add_cookie accepted in this run
    rejected,       \* the cookies add_cookie refused in this run
    probe,          \* verdict of the validity probe of login_with_cookies
    manual,         \* how wait_for_manual_login returned
    captured,       \* per file: the cookie list the last save was made from
    wrote,          \* how save_session ended in this run
    login_ret,      \* what login_with_cookies (or main) returned
    submitted,      \* what this run submitted: "", "form" or "booked"
    run_ret,        \* what run() returned
    process_outputs,\* app.py: kind -> [running, output, last_run]
    threads,        \* app.py: the worker threads started so far
    ai_client,      \* app.py: whether the AI client was configured
    reply,          \* app.py: status code of the last HTTP reply
    clock,          \* app.py: datetime.now()
    quota,          \* app.py: start requests that are let through in this run
    clearing,       \* app.py: the kind a clear request is about to empty, "" if none
    ipc,            \* page inspector: which helper returned last
    doc,            \* the html_content the helpers are given
    got_config,     \* what extract_config_from_script returned
    form_id,        \* extract_form_data: its form_id argument ("" is None)
    got_form,       \* what extract_form_data returned
    build_args,     \* build_form_data_from_config: its arguments
    built,          \* build_form_data_from_config: the form data it returned
    rpc,            \* smart_wait_and_retry: position
    max_retries,    \* smart_wait_and_retry: its max_retries argument
    attempt,        \* smart_wait_and_retry: the loop variable
    outcomes,       \* smart_wait_and_retry: how each call of action_func ended
    retry_ret,      \* smart_wait_and_retry: how it ended
    kpc,            \* run_query of plan_week: position in the chunking part
    report_content, \* run_query: the report read, as [len, newlines]
    current_pos,    \* run_query: start of the next chunk
    iteration,      \* run_query: turns of the chunking loop so far
    chunks,         \* run_query: the chunks, each a slice [from, to) of the report
    sent_chunks,    \* run_query: chunks sent to the AI so far
    plan_end,       \* run_query: the message it ended with
    xpc,            \* extract_assignments_from_dashboard: position
    agenda_items,   \* the agenda items found in the page, in page order
    item_no,        \* items handled so far
    today,          \* the time taken at run.py 274
    current_date,   \* text of the last date heading seen
    seen_assignments, \* identifiers of the assignments taken
    seen_events,    \* identifiers of the events taken
    assignments,    \* StudyGroupManager.assignments
    events          \* StudyGroupManager.events

histVars == <<parseFailAt, badAt, excAt>>
waitVars == <<challenge, timeout, elapsed, polls, poll_response, surfaced, waitReturn>>
loginVars == <<pc, initial_url, response, result, outcome, sent, lastData, kmsiSeen>>
dashVars == <<process_outputs, threads, ai_client, reply, clock, quota, clearing>>
browserVars ==
    <<app, bpc, runs, driver, files, browser, cookies, current_url, wait_timeout, waited,
      restored, injected, rejected, probe, manual, captured, wrote, login_ret, submitted,
      run_ret>>
inspectVars == <<ipc, doc, got_config, form_id, got_form, build_args, built>>
retryVars == <<rpc, max_retries, attempt, outcomes, retry_ret>>
chunkVars == <<kpc, report_content, current_pos, iteration, chunks, sent_chunks, plan_end>>
agendaVars == <<xpc, agenda_items, item_no, today, current_date, seen_assignments,
                seen_events, assignments, events>>
toolVars == <<inspectVars, retryVars, chunkVars, agendaVars>>
vars == <<loginVars, histVars, waitVars, dashVars, printed, browserVars, toolVars>>

(* ---------------------------- session store -------------------------- *)
\* a key that a cookie dict or a file entry does not have
Absent == "absent"

Cookie(name, value, domain, path, secure) ==
    [name |-> name, value |-> value, domain |-> domain, path |-> path, secure |-> secure]

C_sid == Cookie("sid", "v1", ".london.edu", "/", "true")
C_sid_app == Cookie("sid", "v2", "learning.london.edu", "/app", "false")
C_csrf == Cookie("csrf", "t", "learning.london.edu", "/", "false")
CookieUniverse == {C_sid, C_sid_app, C_csrf}
\* the cookie sets a login can leave behind
SessionCookieSets == {{}, {C_csrf}, {C_sid, C_csrf}, {C_sid, C_sid_app}}

FileNames == {"session.json", "lbsmobile_session.json"}
MissingFile == [state |-> "missing", data |-> <<>>]
GarbageFile == [state |-> "garbage", data |-> <<>>]
JsonFile(data) == [state |-> "ok", data |-> data]

\* d[e.name] = attributes of e, on a dict kept in insertion order
DictSet(d, e) ==
    IF \E i \in 1..Len(d) : d[i].name = e.name
    THEN [i \in 1..Len(d) |-> IF d[i].name = e.name THEN e ELSE d[i]]
    ELSE Append(d, e)

\* run.py 105-110: the entry stored for one browser cookie
BrowserEntry(cookie) ==
    Cookie(cookie.name, cookie.value,
           IF cookie.domain = Absent THEN "" ELSE cookie.domain,
           IF cookie.path = Absent THEN "/" ELSE cookie.path,
           IF cookie.secure = Absent THEN "false" ELSE cookie.secure)

\* run.py 103-110: self.cookies built from the list get_cookies() returned
RECURSIVE CookiesFrom(_, _)
CookiesFrom(list, d) ==
    IF list = <<>> THEN d
    ELSE CookiesFrom(Tail(list), DictSet(d, BrowserEntry(list[1])))

\* login.py 593-597: the entry stored for one cookie of the requests session
JarEntry(cookie) == Cookie(cookie.name, cookie.value, cookie.domain, cookie.path, Absent)

\* login.py 591-597
RECURSIVE JarCookiesFrom(_, _)
JarCookiesFrom(list, d) ==
    IF list = <<>> THEN d
    ELSE JarCookiesFrom(Tail(list), DictSet(d, JarEntry(list[1])))

\* run.py 73-80: the cookie handed to add_cookie for one entry of the file
RestoredCookie(cookie_data, default_domain) ==
    Cookie(cookie_data.name, cookie_data.value,
           IF cookie_data.domain = Absent THEN default_domain ELSE cookie_data.domain,
           IF cookie_data.path = Absent THEN "/" ELSE cookie_data.path,
           cookie_data.secure)

\* the browser's cookie store after add_cookie accepted a cookie
Stored(cookie) ==
    [cookie EXCEPT !.secure = IF cookie.secure = Absent THEN "false" ELSE cookie.secure]
SameSlot(a, b) == a.name = b.name /\ a.domain = b.domain /\ a.path = b.path
AddCookie(store, cookie) ==
    {c \in store : ~SameSlot(c, cookie)} \cup {Stored(cookie)}

\* the orders in which get_cookies() or a cookie jar can list a set
Listings(set) ==
    {l \in UNION {[1..n -> set] : n \in {Cardinality(set)}} :
        \A i, j \in 1..Len(l) : i # j => l[i] # l[j]}

NotCaptured == [made |-> FALSE, list |-> <<>>]
CapturedFrom(list) == [made |-> TRUE, list |-> list]

\* no browser run, no session file
BrowserIdle ==
    /\ app = "" /\ bpc = "idle" /\ runs = 0 /\ driver = FALSE
    /\ files = [f \in FileNames |-> MissingFile]
    /\ browser = {} /\ cookies = <<>> /\ current_url = NoUrl
    /\ wait_timeout = 0 /\ waited = 0
    /\ restored = "" /\ injected = {} /\ rejected = {} /\ probe = "" /\ manual = ""
    /\ captured = [f \in FileNames |-> NotCaptured]
    /\ wrote = "" /\ login_ret = "" /\ submitted = "" /\ run_ret = ""

NoDoc == [scripts |-> <<>>, forms |-> <<>>]
NoArgs == [config |-> EmptyDict, username |-> "", password |-> "", for_mfa |-> FALSE]

\* no helper is being exercised on its own
InspectIdle ==
    /\ ipc = "idle" /\ doc = NoDoc
    /\ got_config = EmptyDict /\ form_id = "" /\ got_form = NoForm
    /\ build_args = NoArgs /\ built = EmptyDict

NoOutcome == [kind |-> "", value |-> ""]
RetryIdle ==
    /\ rpc = "idle" /\ max_retries = 0 /\ attempt = 0 /\ outcomes = <<>>
    /\ retry_ret = NoOutcome

NoReport == [len |-> 0, newlines |-> {}]
ChunkIdle ==
    /\ kpc = "idle" /\ report_content = NoReport /\ current_pos = 0
    /\ iteration = 0 /\ chunks = <<>> /\ sent_chunks = 0 /\ plan_end = ""

NoDate == "None"
AgendaIdle ==
    /\ xpc = "idle" /\ agenda_items = <<>> /\ item_no = 0 /\ today = 0
    /\ current_date = NoDate /\ seen_assignments = {} /\ seen_events = {}
    /\ assignments = <<>> /\ events = <<>>

ToolIdle == InspectIdle /\ RetryIdle /\ ChunkIdle /\ AgendaIdle

Kinds == {"assignments", "booking", "llm"}

Username == "user@lbs"
Password == "secret"
PollInterval == 3

NoResponse == [id |-> "none", status |-> 0]
\* bodies a server sends with an error status
ErrorPageIds == {"home", "error", "kmsi"}
\* what one request can be answered with
Answers ==
    {[id |-> i, status |-> 200] : i \in PageIds}
        \cup {[id |-> i, status |-> 500] : i \in ErrorPageIds}

Body(r) == Page(r.id)
\* requests refuses a URL without a scheme (MissingSchema) before sending
Sendable(url) == url.scheme \in {"http://", "https://"}

Truthy(d) == DOMAIN d # {}
Or(a, b) == IF a # NoUrl THEN a ELSE b

(* -------------------------- classification ---------------------------- *)
OnTarget(url) ==
    LET final_url == Lower(UrlStr(url))
    IN  Contains(final_url, <<"learning.london.edu">>)
            \/ Contains(final_url, <<"london.instructure.com">>)

AlreadyAuthenticatedOneHost(url) ==
    LET final_url == Lower(UrlStr(url))
    IN  Contains(final_url, <<"learning.london.edu">>)
            /\ ~Contains(final_url, <<"login">>) /\ ~Contains(final_url, <<"saml">>)

\* login.py 320-322
AlreadyAuthenticated(url) ==
    LET final_url == Lower(UrlStr(url))
    IN  OnTarget(url) /\ ~Contains(final_url, <<"login">>)
                      /\ ~Contains(final_url, <<"saml">>)

MfaMarker(page) ==
    \/ Contains(Text(page), <<"Authenticator">>)
    \/ Contains(Text(page), <<"ConvergedTFA">>)
    \/ Contains(Text(page), <<"PhoneAppNotification">>)

KmsiMarker(page) ==
    \/ Contains(Text(page), <<"Stay signed in">>)
    \/ Contains(Text(page), <<"KmsiInterrupt">>)

PendingMarker(page) ==
    \/ Contains(Text(page), <<"Authenticator">>)
    \/ Contains(Text(page), <<"displaySign">>)

ApprovedAnyUrl(poll, given) == ~PendingMarker(Body(poll))

\* login.py 131-133
Approved(poll, given) ==
    ~PendingMarker(Body(poll)) /\ Body(poll).url # Body(given).url

FinalOutcomeOneHost(page) ==
    LET text == Lower(Text(page))
    IN  IF Contains(Lower(UrlStr(page.url)), <<"learning.london.edu">>) THEN "success_url"
        ELSE IF Contains(text, <<"sign out">>) \/ Contains(text, <<"logout">>)
        THEN "success_logout"
        ELSE IF Contains(text, <<"error">>) \/ Contains(text, <<"incorrect">>)
        THEN "failed_error"
        ELSE "ambiguous"

\* login.py 549-581: the return statement taken for the final response
FinalOutcome(page) ==
    LET text == Lower(Text(page))
    IN  IF OnTarget(page.url) THEN "success_url"
        ELSE IF Contains(text, <<"sign out">>) \/ Contains(text, <<"logout">>)
        THEN "success_logout"
        ELSE IF Contains(text, <<"error">>) \/ Contains(text, <<"incorrect">>)
        THEN "failed_error"
        ELSE "ambiguous"

ResultOf(out) == IF out = "failed_error" THEN "None" ELSE "session"

\* get_text(strip=True) of an element
Strip(t) == IF t = " account blocked " THEN "account blocked" ELSE t

\* login.py 564-569: the text after "Login failed:"
RECURSIVE FindDiv(_, _)
FindDiv(divs, id) ==
    IF divs = <<>> THEN <<>>
    ELSE IF divs[1].id = id THEN <<divs[1]>> ELSE FindDiv(Tail(divs), id)

ErrorMessage(page) ==
    LET error_div == IF FindDiv(page.divs, "errorText") # <<>>
                     THEN FindDiv(page.divs, "errorText")
                     ELSE FindDiv(page.divs, "passwordError")
    IN  IF error_div # <<>> THEN Strip(error_div[1].text) ELSE "Check your credentials"

\* login.py 552, 557, 567-572: the line printed with the final verdict
Verdict(page) ==
    CASE FinalOutcome(page) = "failed_error" -> <<"Login failed:", ErrorMessage(page)>>
      [] FinalOutcome(page) = "ambiguous" ->
           <<"Login appears successful (verification ambiguous)">>
      [] OTHER -> <<"Login successful!">>

NeverSurfaced(page) == ""

\* login.py 88-94: what the operator is shown ("" when no number)
SurfacedCode(page) ==
    LET approval_number == extract_approval_number(page)
    IN  IF approval_number \notin {"None", ""} THEN approval_number ELSE ""


(* ---------------------------- login(): steps -------------------------- *)

Init ==
    /\ pc = "init"
    /\ initial_url \in {NoUrl, U_home}
    /\ response = NoResponse
    /\ result = "" /\ outcome = ""
    /\ sent = <<>> /\ lastData = EmptyDict
    /\ kmsiSeen = FALSE
    /\ parseFailAt = "" /\ badAt = 0 /\ excAt = 0
    /\ challenge = NoResponse /\ timeout = 0 /\ elapsed = 0 /\ polls = 0
    /\ poll_response = NoResponse /\ surfaced = "" /\ waitReturn = ""
    /\ printed = <<>>
    /\ BrowserIdle
    /\ ToolIdle
    /\ process_outputs = [k \in Kinds |-> [running |-> FALSE, output |-> <<>>, last_run |-> 0]]
    /\ threads = <<>>
    /\ ai_client = TRUE
    /\ reply = 0
    /\ clock = 1
    /\ quota = MaxRequests
    /\ clearing = ""

\* a return statement of login()
Finish(res, out) == pc' = "done" /\ result' = res /\ outcome' = out
Send(kind, method) == sent' = Append(sent, [kind |-> kind, method |-> method])
Receive(r) ==
    badAt' = IF badAt = 0 /\ r.status \notin 200..299 THEN Len(sent) + 1 ELSE badAt
TransportFails == excAt' = IF excAt = 0 THEN Len(sent) + 1 ELSE excAt
Mark(step) == parseFailAt' = IF parseFailAt = "" THEN step ELSE parseFailAt

\* the status check after the request is left out
ExchangeUnchecked(kind, method, url, data, checked, nextpc) ==
    IF ~Sendable(url)
    THEN /\ Finish("None", "exception")
         /\ UNCHANGED <<response, sent, lastData, badAt, excAt>>
    ELSE /\ Send(kind, method)
         /\ lastData' = IF method = "POST" THEN data ELSE lastData
         /\ \/ /\ TransportFails
               /\ Finish("None", "exception")
               /\ UNCHANGED <<response, badAt>>
            \/ \E r \in Answers :
                 /\ Receive(r)
                 /\ response' = r
                 /\ UNCHANGED excAt
                 /\ pc' = nextpc /\ UNCHANGED <<result, outcome>>

\* one self.session.get / self.session.post of login(), with the status
\* check that follows it when there is one; an exception goes to line 583
Exchange(kind, method, url, data, checked, nextpc) ==
    IF ~Sendable(url)
    THEN /\ Finish("None", "exception")
         /\ UNCHANGED <<response, sent, lastData, badAt, excAt>>
    ELSE /\ Send(kind, method)
         /\ lastData' = IF method = "POST" THEN data ELSE lastData
         /\ \/ /\ TransportFails
               /\ Finish("None", "exception")
               /\ UNCHANGED <<response, badAt>>
            \/ \E r \in Answers :
                 /\ Receive(r)
                 /\ response' = r
                 /\ UNCHANGED excAt
                 /\ IF checked /\ r.status # 200
                    THEN Finish("None", "http_error")
                    ELSE pc' = nextpc /\ UNCHANGED <<result, outcome>>

\* login.py 290-325
InitialGet ==
    /\ pc = "init"
    /\ IF initial_url = NoUrl
       THEN /\ Finish("None", "no_url")
            /\ UNCHANGED <<response, sent, badAt, excAt>>
       ELSE /\ Send("initial", "GET")
            /\ \/ /\ TransportFails
                  /\ Finish("None", "exception")
                  /\ UNCHANGED <<response, badAt>>
               \/ \E r \in Answers :
                    /\ Receive(r)
                    /\ response' = r
                    /\ UNCHANGED excAt
                    /\ IF r.status # 200 THEN Finish("None", "http_error")
                       ELSE IF AlreadyAuthenticated(Body(r).url)
                       THEN Finish("session", "already")
                       ELSE pc' = "saml" /\ UNCHANGED <<result, outcome>>
    /\ UNCHANGED <<initial_url, lastData, kmsiSeen, parseFailAt, waitVars, dashVars, printed, browserVars, toolVars>>

\* login.py 327-369
SamlHop ==
    /\ pc = "saml"
    /\ LET page == Body(response)
           config == extract_config_from_script(page)
           saml == extract_saml_form(page)
       IN  IF /\ Truthy(config) /\ Has(config, "urlPost")
              /\ Contains(UrlStr(config["urlPost"]), <<"SAML", "Request">>)
           THEN Exchange("saml", "GET", make_absolute_url(config["urlPost"], page.url),
                         EmptyDict, TRUE, "username")
           ELSE IF saml.found /\ Truthy(saml.data) /\ saml.action # NoUrl
           THEN Exchange("saml", "POST", make_absolute_url(saml.action, page.url),
                         saml.data, TRUE, "username")
           ELSE /\ pc' = "username"
                /\ UNCHANGED <<response, result, outcome, sent, lastData, badAt, excAt>>
    /\ UNCHANGED <<initial_url, kmsiSeen, parseFailAt, waitVars, dashVars, printed, browserVars, toolVars>>

\* login.py 371-406
SubmitUsername ==
    /\ pc = "username"
    /\ LET page == Body(response)
           config == extract_config_from_script(page)
           f == extract_form_data(page, "")
           form_data ==
               IF Truthy(config)
               THEN build_form_data_from_config(config, Username, "", FALSE)
               ELSE Put(Put(f.data, "loginfmt", Username), "login", Username)
           action_url ==
               IF Truthy(config)
               THEN make_absolute_url(Or(Get(config, "urlPost", NoUrl),
                                         Get(config, "urlPostAad", NoUrl)), page.url)
               ELSE f.action
       IN  IF (~Truthy(config) /\ ~(f.found /\ Truthy(f.data))) \/ action_url = NoUrl
           THEN /\ Mark("username")
                /\ Finish("None", "parse_error")
                /\ UNCHANGED <<response, sent, lastData, badAt, excAt>>
           ELSE /\ Exchange("username", "POST", action_url, form_data, TRUE, "password")
                /\ UNCHANGED parseFailAt
    /\ UNCHANGED <<initial_url, kmsiSeen, waitVars, dashVars, printed, browserVars, toolVars>>

\* login.py 408-442
SubmitPassword ==
    /\ pc = "password"
    /\ LET page == Body(response)
           config == extract_config_from_script(page)
           f == extract_form_data(page, "")
           form_data ==
               IF Truthy(config)
               THEN build_form_data_from_config(config, Username, Password, FALSE)
               ELSE Put(f.data, "passwd", Password)
           action_url ==
               IF Truthy(config)
               THEN make_absolute_url(Or(Get(config, "urlPost", NoUrl),
                                         Get(config, "urlPostAad", NoUrl)), page.url)
               ELSE f.action
       IN  IF (~Truthy(config) /\ ~(f.found /\ Truthy(f.data))) \/ action_url = NoUrl
           THEN /\ Mark("password")
                /\ Finish("None", "parse_error")
                /\ UNCHANGED <<response, sent, lastData, badAt, excAt>>
           ELSE /\ Exchange("password", "POST", action_url, form_data, TRUE, "mfa")
                /\ UNCHANGED parseFailAt
    /\ UNCHANGED <<initial_url, kmsiSeen, waitVars, dashVars, printed, browserVars, toolVars>>

\* form data of an EndAuth request (login.py 113-117 and 511-514)
EndAuthData(config) ==
    Put(Put(build_form_data_from_config(config, "", "", TRUE), "Method", "EndAuth"),
        "AuthMethodId", "PhoneAppNotification")

\* login.py 444-504: the ProcessAuth or BeginAuth request
MfaInitiate ==
    /\ pc = "mfa"
    /\ LET page == Body(response)
           config == extract_config_from_script(page)
           form_data == Put(build_form_data_from_config(config, "", "", TRUE),
                            "AuthMethodId", "PhoneAppNotification")
           begin_url == make_absolute_url(config["urlBeginAuth"], page.url)
           poll_url == Or(Get(config, "urlEndAuth", NoUrl), Get(config, "urlPost", NoUrl))
       IN  IF ~MfaMarker(page)
           THEN /\ pc' = "kmsi"
                /\ UNCHANGED <<response, result, outcome, sent, lastData, histVars>>
           ELSE IF ~Truthy(config)
           THEN /\ pc' = "wait"
                /\ Mark("mfa")
                /\ UNCHANGED <<response, result, outcome, sent, lastData, badAt, excAt>>
           ELSE IF Has(config, "urlPost")
           THEN /\ Exchange("mfa_init", "POST",
                            make_absolute_url(config["urlPost"], page.url),
                            form_data, FALSE, "wait")
                /\ UNCHANGED parseFailAt
           ELSE IF Has(config, "urlBeginAuth")
           THEN /\ UNCHANGED parseFailAt
                /\ IF ~Sendable(begin_url)
                   THEN /\ Finish("None", "exception")
                        /\ UNCHANGED <<response, sent, lastData, badAt, excAt>>
                   ELSE /\ Send("mfa_begin", "POST")
                        /\ lastData' = Put(form_data, "Method", "BeginAuth")
                        /\ \/ /\ TransportFails
                              /\ Finish("None", "exception")
                              /\ UNCHANGED <<response, badAt>>
                           \/ \E begin_response \in Answers :
                                /\ Receive(begin_response)
                                /\ UNCHANGED <<excAt, result, outcome>>
                                /\ IF poll_url # NoUrl
                                   THEN pc' = "endauth" /\ UNCHANGED response
                                   ELSE pc' = "wait" /\ response' = begin_response
           ELSE /\ pc' = "wait"
                /\ Mark("mfa")
                /\ UNCHANGED <<response, result, outcome, sent, lastData, badAt, excAt>>
    /\ UNCHANGED <<initial_url, kmsiSeen, waitVars, dashVars, printed, browserVars, toolVars>>

\* login.py 506-517: the EndAuth request that follows BeginAuth
MfaFetchNumber ==
    /\ pc = "endauth"
    /\ LET page == Body(response)
           config == extract_config_from_script(page)
           poll_url == Or(Get(config, "urlEndAuth", NoUrl), Get(config, "urlPost", NoUrl))
       IN  Exchange("mfa_endauth", "POST", make_absolute_url(poll_url, page.url),
                    EndAuthData(config), FALSE, "wait")
    /\ UNCHANGED <<initial_url, kmsiSeen, parseFailAt, waitVars, dashVars, printed, browserVars, toolVars>>


(* ----------------------- wait_for_auth_approval ----------------------- *)
\* login.py 104-106
PollUrl(page) ==
    LET config == extract_config_from_script(page)
    IN  make_absolute_url(Or(Or(Get(config, "urlEndAuth", NoUrl),
                                Get(config, "urlPost", NoUrl)),
                             Get(config, "urlBeginAuth", NoUrl)), page.url)

\* login.py 79-121: entry of wait_for_auth_approval, up to the loop.
\* login() passes the default timeout; the model draws the argument.
WaitStart ==
    /\ pc = "wait"
    /\ \E t \in 0..MaxTimeout :
         LET page == Body(response)
             config == extract_config_from_script(page)
         IN  /\ challenge' = response
             /\ timeout' = t
             /\ surfaced' = SurfacedCode(page)
             /\ elapsed' = 0
             /\ polls' = 0
             /\ IF ~Truthy(config) \/ PollUrl(page) = NoUrl
                THEN pc' = "manual" /\ Mark("wait")
                ELSE pc' = "poll" /\ UNCHANGED parseFailAt
    /\ UNCHANGED <<initial_url, response, result, outcome, sent, lastData, kmsiSeen,
                   badAt, excAt, poll_response, waitReturn, dashVars, printed, browserVars, toolVars>>

\* login.py 100-101 and 110-111: input(), which returns or raises EOFError
ManualConfirm ==
    /\ pc = "manual"
    /\ \/ pc' = "kmsi" /\ waitReturn' = "manual" /\ UNCHANGED <<result, outcome>>
       \/ Finish("None", "exception") /\ UNCHANGED waitReturn
    /\ UNCHANGED <<initial_url, response, sent, lastData, kmsiSeen, histVars, challenge,
                   timeout, elapsed, polls, poll_response, surfaced, dashVars, printed, browserVars, toolVars>>

LoopContinuesAtDeadline(t, limit) == t <= limit

\* login.py 123: the loop condition
LoopContinues(t, limit) == t < limit

\* login.py 123-141: one iteration of the poll loop
PollLoop ==
    /\ pc = "poll"
    /\ LoopContinues(elapsed, timeout)
    /\ Send("poll", "POST")
    /\ lastData' = EndAuthData(extract_config_from_script(Body(challenge)))
    /\ polls' = polls + 1
    /\ \/ /\ TransportFails
          /\ elapsed' = elapsed + PollInterval
          /\ pc' = "kmsi"
          /\ waitReturn' = "error"
          /\ UNCHANGED <<response, poll_response, badAt>>
       \/ \E r \in Answers, d \in 0..MaxReqTime :
            /\ Receive(r)
            /\ UNCHANGED excAt
            /\ poll_response' = r
            /\ elapsed' = elapsed + PollInterval + d
            /\ IF Approved(r, challenge)
               THEN pc' = "kmsi" /\ response' = r /\ waitReturn' = "approved"
               ELSE UNCHANGED <<pc, response, waitReturn>>
    /\ UNCHANGED <<initial_url, result, outcome, kmsiSeen, parseFailAt, challenge, timeout,
                   surfaced, dashVars, printed, browserVars, toolVars>>

\* login.py 123 and 143-145: the loop condition fails
PollTimeout ==
    /\ pc = "poll"
    /\ ~LoopContinues(elapsed, timeout)
    /\ pc' = "kmsi"
    /\ waitReturn' = "timeout"
    /\ UNCHANGED <<initial_url, response, result, outcome, sent, lastData, kmsiSeen,
                   histVars, challenge, timeout, elapsed, polls, poll_response, surfaced,
                   dashVars, printed, browserVars, toolVars>>

(* --------------------- login(): step 5 and the end -------------------- *)
DontStaySignedIn == "1"

\* login.py 535 and 542: the choice written into the form
KmsiChoice(form_data) == Put(form_data, "LoginOptions", DontStaySignedIn)

\* login.py 525-546
Kmsi ==
    /\ pc = "kmsi"
    /\ LET page == Body(response)
           config == extract_config_from_script(page)
           f == extract_form_data(page, "")
           form_data ==
               IF Truthy(config)
               THEN KmsiChoice(build_form_data_from_config(config, "", "", FALSE))
               ELSE IF f.found /\ Truthy(f.data) THEN KmsiChoice(f.data) ELSE f.data
           action_url ==
               IF Truthy(config)
               THEN make_absolute_url(Get(config, "urlPost", NoUrl), page.url)
               ELSE f.action
       IN  IF ~KmsiMarker(page)
           THEN /\ pc' = "classify"
                /\ UNCHANGED <<response, result, outcome, sent, lastData, kmsiSeen, histVars>>
           ELSE /\ kmsiSeen' = TRUE
                /\ IF Truthy(form_data) /\ action_url # NoUrl
                   THEN /\ Exchange("kmsi", "POST", action_url, form_data, FALSE, "classify")
                        /\ UNCHANGED parseFailAt
                   ELSE /\ pc' = "classify"
                        /\ Mark("kmsi")
                        /\ UNCHANGED <<response, result, outcome, sent, lastData, badAt, excAt>>
    /\ UNCHANGED <<initial_url, waitVars, dashVars, printed, browserVars, toolVars>>

\* login.py 548-581
Classify ==
    /\ pc = "classify"
    /\ LET out == FinalOutcome(Body(response))
       IN  \/ Finish(ResultOf(out), out)
           \* 577-578: writing last_response.html raises, caught at 583
           \/ out = "ambiguous" /\ Finish("None", "exception")
    /\ printed' = Verdict(Body(response))
    /\ UNCHANGED <<initial_url, response, sent, lastData, kmsiSeen, histVars, waitVars,
                   dashVars, browserVars, toolVars>>

Next ==
    \/ InitialGet
    \/ SamlHop
    \/ SubmitUsername
    \/ SubmitPassword
    \/ MfaInitiate
    \/ MfaFetchNumber
    \/ WaitStart
    \/ ManualConfirm
    \/ PollLoop
    \/ PollTimeout
    \/ Kmsi
    \/ Classify

Spec == Init /\ [][Next]_vars


(* ------------------------- dashboard (app.py) ------------------------- *)
Endpoints == {"run_assignments", "book_room", "plan_week", "query_llm"}

\* the process_outputs entry an endpoint uses
KindOf(endpoint) ==
    CASE endpoint = "run_assignments" -> "assignments"
      [] endpoint = "book_room" -> "booking"
      [] endpoint = "plan_week" -> "llm"
      [] endpoint = "query_llm" -> "llm"

\* login() and the scripts are not running
ProgramIdleButDash ==
    /\ pc = "init"
    /\ initial_url = NoUrl
    /\ response = NoResponse
    /\ result = "" /\ outcome = ""
    /\ sent = <<>> /\ lastData = EmptyDict
    /\ kmsiSeen = FALSE
    /\ parseFailAt = "" /\ badAt = 0 /\ excAt = 0
    /\ challenge = NoResponse /\ timeout = 0 /\ elapsed = 0 /\ polls = 0
    /\ poll_response = NoResponse /\ surfaced = "" /\ waitReturn = ""
    /\ printed = <<>>
    /\ BrowserIdle
    /\ ToolIdle

\* first line a worker writes
Banner(endpoint) ==
    CASE endpoint = "run_assignments" -> "Starting assignment extraction..."
      [] endpoint = "book_room" -> "Starting room booking..."
      [] endpoint = "plan_week" -> "Planning your week with AI..."
      [] endpoint = "query_llm" -> "Processing query"

\* last line a worker writes before its finally clause
Endings(endpoint) ==
    CASE endpoint = "run_assignments" -> {"completed", "exit code", "Error"}
      [] endpoint = "book_room" -> {"completed", "exit code", "Error"}
      [] endpoint = "plan_week" ->
           {"report not found", "Maximum iterations", "Planning completed", "Error"}
      [] endpoint = "query_llm" -> {"Query completed", "Error"}

DashInit ==
    /\ pc = "init"
    /\ initial_url = NoUrl
    /\ response = NoResponse
    /\ result = "" /\ outcome = ""
    /\ sent = <<>> /\ lastData = EmptyDict
    /\ kmsiSeen = FALSE
    /\ parseFailAt = "" /\ badAt = 0 /\ excAt = 0
    /\ challenge = NoResponse /\ timeout = 0 /\ elapsed = 0 /\ polls = 0
    /\ poll_response = NoResponse /\ surfaced = "" /\ waitReturn = ""
    /\ printed = <<>>
    /\ BrowserIdle
    /\ ToolIdle
    /\ process_outputs = [k \in Kinds |-> [running |-> FALSE, output |-> <<>>, last_run |-> 0]]
    /\ threads = <<>>
    /\ ai_client \in BOOLEAN
    /\ reply = 0
    /\ clock = 1
    /\ quota = MaxRequests
    /\ clearing = ""

SetField(po, kind, field, value) ==
    [po EXCEPT ![kind] = [po[kind] EXCEPT ![field] = value]]

\* app.py 183-184, 236-237, 308-309, 556-557: the check that admits a start request
Admitted(po, kind) == ~po[kind].running

\* app.py 180-230, 233-302, 305-550, 553-623: a start request, up to thread.start().
\* config_updates: "" none, "ok" written, "fail" the config file cannot be updated.
StartTask ==
    \E endpoint \in Endpoints, config_updates \in {"", "ok", "fail"}, query \in {"", "q"} :
      LET kind == KindOf(endpoint)
          updates == IF endpoint = "book_room" THEN config_updates ELSE ""
          refused ==
              \/ ~Admitted(process_outputs, kind)
              \/ endpoint \in {"plan_week", "query_llm"} /\ ~ai_client
              \/ endpoint = "query_llm" /\ query = ""
              \/ updates = "fail"
      IN  /\ Len(threads) < quota
          /\ (endpoint # "book_room") => config_updates = ""
          /\ (endpoint # "query_llm") => query = ""
          /\ IF refused
             THEN /\ reply' = 400
                  /\ UNCHANGED <<process_outputs, threads>>
             ELSE /\ reply' = 202
                  /\ process_outputs' =
                        IF updates = "ok"
                        THEN SetField(process_outputs, kind, "output",
                                      <<"Updated configuration">>)
                        ELSE process_outputs
                  /\ threads' = Append(threads, [endpoint |-> endpoint, kind |-> kind,
                                                 updates |-> updates, pc |-> "spawned",
                                                 lines |-> 0])
          /\ UNCHANGED <<quota, clearing, ai_client, clock, loginVars, histVars, waitVars, printed, browserVars, toolVars>>

\* app.py 187-189, 258-261, 315-317, 568-570: the first statements of a worker
WorkerBegin ==
    \E i \in 1..Len(threads) :
      LET t == threads[i]
          po1 == SetField(process_outputs, t.kind, "running", TRUE)
          po2 == IF t.endpoint = "book_room" /\ t.updates # ""
                 THEN po1
                 ELSE SetField(po1, t.kind, "output", <<Banner(t.endpoint)>>)
      IN  /\ t.pc = "spawned"
          /\ process_outputs' = SetField(po2, t.kind, "last_run", clock)
          /\ threads' = [threads EXCEPT ![i].pc = "running"]
          /\ clock' = clock + 1
          /\ UNCHANGED <<quota, clearing, ai_client, reply, loginVars, histVars, waitVars, printed, browserVars, toolVars>>

\* app.py 209-211, 281-283: a line of the subprocess is appended
WorkerOutput ==
    \E i \in 1..Len(threads) :
      LET t == threads[i]
      IN  /\ t.pc = "running"
          /\ t.endpoint \in {"run_assignments", "book_room"}
          /\ t.lines < MaxLines
          /\ process_outputs' =
                SetField(process_outputs, t.kind, "output",
                         Append(process_outputs[t.kind].output, "line"))
          /\ threads' = [threads EXCEPT ![i].lines = t.lines + 1]
          /\ UNCHANGED <<quota, clearing, ai_client, reply, clock, loginVars, histVars, waitVars, printed, browserVars, toolVars>>

\* an early return leaves the worker before the flag is reset
WorkerEndNoFinally ==
    \E i \in 1..Len(threads) :
      LET t == threads[i]
      IN  /\ t.pc = "running"
          /\ \E ending \in Endings(t.endpoint) :
               process_outputs' =
                   SetField(SetField(process_outputs, t.kind, "output",
                                     Append(process_outputs[t.kind].output, ending)),
                            t.kind, "running",
                            ending \in {"report not found", "Maximum iterations"})
          /\ threads' = [threads EXCEPT ![i].pc = "finished"]
          /\ UNCHANGED <<quota, clearing, ai_client, reply, clock, loginVars, histVars, waitVars, printed, browserVars, toolVars>>

\* app.py 213-223, 285-295, 319-324 and 535-543, 606-616: the last message
\* and the finally clause
WorkerEnd ==
    \E i \in 1..Len(threads) :
      LET t == threads[i]
      IN  /\ t.pc = "running"
          /\ \E ending \in Endings(t.endpoint) :
               process_outputs' =
                   SetField(SetField(process_outputs, t.kind, "output",
                                     Append(process_outputs[t.kind].output, ending)),
                            t.kind, "running", FALSE)
          /\ threads' = [threads EXCEPT ![i].pc = "finished"]
          /\ UNCHANGED <<quota, clearing, ai_client, reply, clock, loginVars, histVars, waitVars, printed, browserVars, toolVars>>

\* the test is left out
ClearableAlways(po, kind) == TRUE

\* app.py 641: the test that lets a clear request through
Clearable(po, kind) == ~po[kind].running

\* app.py 635-641 and 644-645: a clear request up to its test of the
\* running flag; a refused request is answered here
ClearOutput ==
    \E process_type \in Kinds \cup {"unknown"} :
      /\ clearing = ""
      /\ IF process_type \notin DOMAIN process_outputs
         THEN reply' = 400 /\ UNCHANGED clearing
         ELSE IF Clearable(process_outputs, process_type)
         THEN clearing' = process_type /\ UNCHANGED reply
         ELSE reply' = 400 /\ UNCHANGED clearing
      /\ UNCHANGED <<process_outputs, threads, ai_client, clock, quota, loginVars, histVars, waitVars, printed, browserVars, toolVars>>

\* app.py 642-643: the request that passed the test empties the output
ClearOutputWrite ==
    /\ clearing # ""
    /\ process_outputs' = SetField(process_outputs, clearing, "output", <<>>)
    /\ reply' = 200
    /\ clearing' = ""
    /\ UNCHANGED <<threads, ai_client, clock, quota, loginVars, histVars, waitVars, printed, browserVars, toolVars>>

DashNext ==
    \/ StartTask
    \/ WorkerBegin
    \/ WorkerOutput
    \/ WorkerEnd
    \/ ClearOutput
    \/ ClearOutputWrite

DashSpec == DashInit /\ [][DashNext]_vars

\* a run in which fewer start requests arrive
DashFewInit ==
    /\ ProgramIdleButDash
    /\ process_outputs = [k \in Kinds |-> [running |-> FALSE, output |-> <<>>, last_run |-> 0]]
    /\ threads = <<>>
    /\ ai_client \in BOOLEAN
    /\ reply = 0
    /\ clock = 1
    /\ quota = MaxStarts
    /\ clearing = ""

\* the subprocess or the AI call a worker waits on returns, and the worker
\* thread is scheduled
DashFairSpec == DashFewInit /\ [][DashNext]_vars /\ WF_vars(WorkerEnd)



(* ============ run.py, book_room.py, login.py main: the runs ============ *)
Apps == {"login", "run", "book"}
MobileHost == <<"lbsmobile.london.edu">>
U_mobile == Url("https://", MobileHost, <<"/">>)
U_mobile_auth == Url("https://", MobileHost, <<"/#/", "auth", "enticated">>)

\* the site a script logs in to, and its session file
SiteHost(a) == IF a = "book" THEN MobileHost ELSE TargetHost
SessionFile(a) == IF a = "book" THEN "lbsmobile_session.json" ELSE "session.json"
DefaultDomain(a) == IF a = "book" THEN ".lbsmobile.london.edu" ELSE ".learning.london.edu"

\* where a navigation of the browser can end
Landings(a) ==
    IF a = "book" THEN {U_mobile, U_mobile_auth, U_ms_login}
    ELSE {U_home, U_target_login, U_canvas, U_ms_login}

NoValueEntry == Cookie("old", Absent, Absent, Absent, Absent)
InitialFiles ==
    {MissingFile, GarbageFile,
     JsonFile(<<BrowserEntry(C_csrf), BrowserEntry(C_sid)>>),
     JsonFile(<<JarEntry(C_csrf), NoValueEntry>>)}

StoreInit ==
    /\ pc = "init"
    /\ initial_url = NoUrl
    /\ response = NoResponse
    /\ result = "" /\ outcome = ""
    /\ sent = <<>> /\ lastData = EmptyDict
    /\ kmsiSeen = FALSE
    /\ parseFailAt = "" /\ badAt = 0 /\ excAt = 0
    /\ challenge = NoResponse /\ timeout = 0 /\ elapsed = 0 /\ polls = 0
    /\ poll_response = NoResponse /\ surfaced = "" /\ waitReturn = ""
    /\ printed = <<>>
    /\ process_outputs = [k \in Kinds |-> [running |-> FALSE, output |-> <<>>, last_run |-> 0]]
    /\ threads = <<>>
    /\ ai_client = TRUE
    /\ reply = 0
    /\ clock = 1
    /\ quota = MaxRequests
    /\ clearing = ""
    /\ app = "" /\ bpc = "idle" /\ runs = 0 /\ driver = FALSE
    /\ \E c \in InitialFiles : files = [f \in FileNames |-> c]
    /\ browser = {} /\ cookies = <<>> /\ current_url = NoUrl
    /\ wait_timeout = 0 /\ waited = 0
    /\ restored = "" /\ injected = {} /\ rejected = {} /\ probe = "" /\ manual = ""
    /\ captured = [f \in FileNames |-> NotCaptured]
    /\ wrote = "" /\ login_ret = "" /\ submitted = "" /\ run_ret = ""
    /\ ToolIdle

otherVars == <<loginVars, histVars, waitVars, dashVars, printed, toolVars>>

\* a script is started: a new process and, for the browser scripts, a new
\* Chrome profile (run.py 25-31 and 39-48, book_room.py 19-22)
StartRun ==
    /\ bpc \in {"idle", "end"}
    /\ runs < MaxRuns
    /\ \E a \in Apps :
         /\ app' = a
         /\ bpc' = IF a = "login" THEN "main" ELSE "setup"
    /\ runs' = runs + 1
    /\ driver' = FALSE /\ browser' = {} /\ cookies' = <<>> /\ current_url' = NoUrl
    /\ wait_timeout' = 0 /\ waited' = 0
    /\ restored' = "" /\ injected' = {} /\ rejected' = {} /\ probe' = "" /\ manual' = ""
    /\ wrote' = "" /\ login_ret' = "" /\ submitted' = "" /\ run_ret' = ""
    /\ UNCHANGED <<files, captured, otherVars>>

\* open(filename, 'w') and json.dump: the states a write can leave the file in
WriteOk(f, data, list) ==
    /\ files' = [files EXCEPT ![f] = JsonFile(data)]
    /\ captured' = [captured EXCEPT ![f] = list]
WriteFails(f) ==
    \/ UNCHANGED <<files, captured>>
    \/ /\ files' = [files EXCEPT ![f] = GarbageFile]
       /\ captured' = [captured EXCEPT ![f] = NotCaptured]

\* login.py 651-668 with save_session 589-602; login() is the sequencer of
\* Spec, here its return value and the session's cookie jar are drawn
main ==
    /\ bpc = "main"
    /\ bpc' = "end"
    /\ \/ /\ login_ret' = "None"
          /\ UNCHANGED <<files, captured, wrote, browser>>
       \/ \E jar \in SessionCookieSets : \E l \in Listings(jar) :
            /\ browser' = jar
            /\ \/ /\ WriteOk(SessionFile(app), JarCookiesFrom(l, <<>>), CapturedFrom(l))
                  /\ wrote' = "ok" /\ login_ret' = "session"
               \/ /\ WriteFails(SessionFile(app))
                  /\ wrote' = "raised" /\ login_ret' = "raised"
    /\ UNCHANGED <<app, runs, driver, cookies, current_url, wait_timeout, waited, restored,
                   injected, rejected, probe, manual, submitted, run_ret, otherVars>>

\* login_with_cookies returned False, or raised: run() returns False
\* (run.py 747-749 and 780-787, book_room.py 466-468 and 499-508)
LoginFails(ret) == login_ret' = ret /\ run_ret' = "False" /\ bpc' = "end"

\* run.py 35-54 with 217-218
setup_driver ==
    /\ bpc = "setup"
    /\ \/ driver' = TRUE /\ bpc' = "restore" /\ UNCHANGED <<login_ret, run_ret>>
       \/ driver' = FALSE /\ LoginFails("False")
    /\ UNCHANGED <<app, runs, files, browser, cookies, current_url, wait_timeout, waited,
                   restored, injected, rejected, probe, manual, captured, wrote, submitted,
                   otherVars>>

\* run.py 72-85: the loop over the entries first..last of the file, where
\* add_cookie refuses the entries whose index is in refused
RECURSIVE InjectFrom(_, _, _, _, _, _)
InjectFrom(store, data, first, last, refused, default_domain) ==
    IF first > last THEN store
    ELSE InjectFrom(IF first \in refused THEN store
                    ELSE AddCookie(store, RestoredCookie(data[first], default_domain)),
                    data, first + 1, last, refused, default_domain)

\* index of the first entry without a 'value' key (KeyError at run.py 75)
FirstBadEntry(data) ==
    IF \E i \in 1..Len(data) : data[i].value = Absent
    THEN CHOOSE i \in 1..Len(data) :
            data[i].value = Absent /\ \A j \in 1..(i - 1) : data[j].value # Absent
    ELSE Len(data) + 1

\* run.py 58-95 (book_room.py 67-104) with the branch at 222 (207)
load_and_restore_cookies ==
    /\ bpc = "restore"
    /\ LET file == files[SessionFile(app)]
           data == file.data
           last == FirstBadEntry(data) - 1
       IN  \/ /\ file.state = "missing"
              /\ restored' = "no_file"
              /\ UNCHANGED <<cookies, browser, current_url, injected, rejected>>
           \/ /\ file.state = "garbage"
              /\ restored' = "error"
              /\ UNCHANGED <<cookies, browser, current_url, injected, rejected>>
           \/ /\ file.state = "ok"
              /\ cookies' = data
              /\ \/ /\ restored' = "error"
                    /\ UNCHANGED <<browser, current_url, injected, rejected>>
                 \/ \E u \in Landings(app) : \E refused \in SUBSET (1..last) :
                      /\ current_url' = u
                      /\ browser' = InjectFrom(browser, data, 1, last, refused,
                                               DefaultDomain(app))
                      /\ injected' = {Stored(RestoredCookie(data[i], DefaultDomain(app))) :
                                         i \in (1..last) \ refused}
                      /\ rejected' = {RestoredCookie(data[i], DefaultDomain(app)) :
                                         i \in refused}
                      /\ restored' = IF last < Len(data) THEN "error" ELSE "True"
    /\ bpc' = IF restored' = "True" THEN "probe" ELSE "manual"
    /\ UNCHANGED <<app, runs, driver, files, wait_timeout, waited, probe, manual, captured,
                   wrote, login_ret, submitted, run_ret, otherVars>>

ProbeValidHostOnly(a, url) == Contains(Lower(UrlStr(url)), SiteHost(a))

\* the URL test of the probe (run.py 227-228, book_room.py 212-213)
ProbeValid(a, url) ==
    LET u == Lower(UrlStr(url))
    IN  /\ Contains(u, SiteHost(a))
        /\ \A word \in {"login", "auth", "microsoft", "saml"} : ~Contains(u, <<word>>)

\* login_with_cookies went past the login (run.py 230 or 243); run() goes
\* on with its next step
LoggedIn ==
    /\ login_ret' = "True"
    /\ IF app = "book" THEN bpc' = "navigate" /\ UNCHANGED run_ret
       ELSE bpc' = "end" /\ run_ret' = "extracting"

\* run.py 223-232 (book_room.py 208-217): the live request on the restored
\* session
ProbeSession ==
    /\ bpc = "probe"
    /\ \/ /\ probe' = "raised" /\ LoginFails("raised")
          /\ UNCHANGED current_url
       \/ \E u \in Landings(app) :
            /\ current_url' = u
            /\ IF ProbeValid(app, u)
               THEN probe' = "valid" /\ LoggedIn
               ELSE probe' = "invalid" /\ bpc' = "manual" /\ UNCHANGED <<login_ret, run_ret>>
    /\ UNCHANGED <<app, runs, driver, files, browser, cookies, wait_timeout, waited,
                   restored, injected, rejected, manual, captured, wrote, submitted,
                   otherVars>>

\* seconds wait_for_manual_login sleeps between two looks at the URL
CheckInterval == 2

\* run.py 180-181 (book_room.py 165-166): the URL test inside the loop
ManualValid(a, url) ==
    LET u == Lower(UrlStr(url))
    IN  /\ IF a = "book" THEN Contains(u, MobileHost)
           ELSE Contains(u, TargetHost) \/ Contains(u, InstructureHost)
        /\ \A word \in {"login", "auth", "microsoft", "saml"} : ~Contains(u, <<word>>)

\* run.py 201 (book_room.py 186): the URL test after the timeout
OnSiteAtTimeout(a, url) ==
    IF a = "book" THEN Contains(UrlStr(url), MobileHost)
    ELSE Contains(UrlStr(url), TargetHost) \/ Contains(UrlStr(url), InstructureHost)

\* wait_for_manual_login returned True: the operator's login has left the
\* site's cookies in the browser
ManualSucceeds(how) ==
    /\ manual' = how
    /\ bpc' = "save"
    /\ \E b \in SessionCookieSets : browser' = b
    /\ wait_timeout' = 0 /\ waited' = 0
    /\ UNCHANGED <<login_ret, run_ret>>

\* run.py 155-174 (book_room.py 140-159), called at run.py 236
wait_for_manual_login ==
    /\ bpc = "manual"
    /\ \/ /\ manual' = "error" /\ LoginFails("False")
          /\ UNCHANGED <<current_url, wait_timeout, waited>>
       \/ \E t \in 0..MaxWait : \E u \in Landings(app) :
            /\ current_url' = u /\ wait_timeout' = t /\ waited' = 0
            /\ bpc' = "waiting"
            /\ UNCHANGED <<manual, login_ret, run_ret>>
    /\ UNCHANGED <<app, runs, driver, files, browser, cookies, restored, injected, rejected,
                   probe, captured, wrote, submitted, otherVars>>

\* run.py 176-194: one turn of the waiting loop
ManualCheck ==
    /\ bpc = "waiting"
    /\ waited < wait_timeout
    /\ \/ /\ waited' = waited + CheckInterval
          /\ UNCHANGED <<current_url, browser, manual, bpc, login_ret, run_ret, wait_timeout>>
       \/ \E u \in Landings(app) :
            /\ current_url' = u
            /\ IF ManualValid(app, u)
               THEN ManualSucceeds("observed")
               ELSE /\ waited' = waited + CheckInterval
                    /\ UNCHANGED <<browser, manual, bpc, login_ret, run_ret, wait_timeout>>
    /\ UNCHANGED <<app, runs, driver, files, cookies, restored, injected,
                   rejected, probe, captured, wrote, submitted, otherVars>>

\* run.py 196-209: the loop ran out
ManualTimeout ==
    /\ bpc = "waiting"
    /\ ~(waited < wait_timeout)
    /\ \/ /\ manual' = "error" /\ LoginFails("False")
          /\ wait_timeout' = 0 /\ waited' = 0
          /\ UNCHANGED <<current_url, browser>>
       \/ \E u \in Landings(app) :
            /\ current_url' = u
            /\ IF OnSiteAtTimeout(app, u)
               THEN ManualSucceeds("timeout_on_site")
               ELSE /\ manual' = "timeout" /\ LoginFails("False")
                    /\ wait_timeout' = 0 /\ waited' = 0
                    /\ UNCHANGED browser
    /\ UNCHANGED <<app, runs, driver, files, cookies, restored,
                   injected, rejected, probe, captured, wrote, submitted, otherVars>>

\* run.py 239-243 with extract_cookies 97-116 and save_session 118-127
SaveNewSession ==
    /\ bpc = "save"
    /\ \E from \in {CapturedFrom(l) : l \in Listings(browser)} \cup {NotCaptured} :
         /\ cookies' = IF from.made THEN CookiesFrom(from.list, <<>>) ELSE cookies
         /\ \/ WriteOk(SessionFile(app), cookies', from) /\ wrote' = "ok"
            \/ WriteFails(SessionFile(app)) /\ wrote' = "failed"
    /\ LoggedIn
    /\ UNCHANGED <<app, runs, driver, browser, current_url, wait_timeout, waited, restored,
                   injected, rejected, probe, manual, submitted, otherVars>>

\* a step of RoomBooker.run returned False, or raised (book_room.py 471-503)
RunFails == run_ret' = "False" /\ bpc' = "end"

bookFrame ==
    <<app, runs, driver, files, browser, cookies, current_url, wait_timeout, waited,
      restored, injected, rejected, probe, manual, captured, wrote, login_ret, otherVars>>

\* book_room.py 232-255, step 2 of run()
navigate_to_bookings ==
    /\ bpc = "navigate"
    /\ \/ bpc' = "click" /\ UNCHANGED run_ret
       \/ RunFails
    /\ UNCHANGED <<submitted, bookFrame>>

\* book_room.py 257-278, step 3 of run()
click_book_room ==
    /\ bpc = "click"
    /\ \/ bpc' = "fill" /\ UNCHANGED run_ret
       \/ RunFails
    /\ UNCHANGED <<submitted, bookFrame>>

\* book_room.py 280-371, step 4 of run(): fills the form and submits it
fill_booking_form ==
    /\ bpc = "fill"
    /\ \/ bpc' = "select" /\ submitted' = "form" /\ UNCHANGED run_ret
       \/ RunFails /\ UNCHANGED submitted
    /\ UNCHANGED bookFrame

\* book_room.py 375-454, step 5 of run(), and the end of run() 490-497
select_and_book_room ==
    /\ bpc = "select"
    /\ \/ RunFails /\ UNCHANGED submitted
       \/ /\ submitted' = "booked"
          /\ bpc' = "end"
          /\ run_ret' \in {"True", "False"}
    /\ UNCHANGED bookFrame

StoreNext ==
    \/ StartRun
    \/ main
    \/ setup_driver
    \/ load_and_restore_cookies
    \/ ProbeSession
    \/ wait_for_manual_login
    \/ ManualCheck
    \/ ManualTimeout
    \/ SaveNewSession
    \/ navigate_to_bookings
    \/ click_book_room
    \/ fill_booking_form
    \/ select_and_book_room

StoreSpec == StoreInit /\ [][StoreNext]_vars

(* ----------------- script text: re.search and json.loads --------------- *)
\* A script's string is a sequence of tokens: Q is the double quote, Sp a
\* run of white space, "$Config", "=", "{", "}", ";", ":" and "," stand for
\* themselves, and every other token is a run of characters that is neither
\* white space, punctuation nor a JSON literal.
Q == "\""
Sp == " "

\* index of the first token at or after i that is not white space
RECURSIVE SkipWs(_, _)
SkipWs(t, i) == IF i <= Len(t) /\ t[i] = Sp THEN SkipWs(t, i + 1) ELSE i

At(t, i) == IF i \in 1..Len(t) THEN t[i] ELSE ""
Min(S) == CHOOSE i \in S : \A j \in S : i <= j

\* where \$Config\s*=\s*{ matched from i puts its brace, 0 when it does not match
BraceAfter(t, i) ==
    LET e == SkipWs(t, i + 1)
        b == SkipWs(t, e + 1)
    IN  IF At(t, i) = "$Config" /\ At(t, e) = "=" /\ At(t, b) = "{" THEN b ELSE 0

\* the ends .*?}; can take after the brace at b: a "}" directly before a ";"
GroupEnds(t, b) == {j \in (b + 1)..(Len(t) - 1) : t[j] = "}" /\ t[j + 1] = ";"}

\* re.search(r'\$Config\s*=\s*({.*?});', script.string, re.DOTALL): the
\* leftmost start that matches, and from it the shortest group
ConfigSearch(t) ==
    LET starts == {i \in 1..Len(t) : BraceAfter(t, i) # 0 /\ GroupEnds(t, BraceAfter(t, i)) # {}}
    IN  IF starts = {} THEN [found |-> FALSE, group |-> <<>>]
        ELSE LET b == BraceAfter(t, Min(starts))
             IN  [found |-> TRUE, group |-> SubSeq(t, b, Min(GroupEnds(t, b)))]

\* index of the quote that closes the string opened at i, 0 when there is none
StringEnd(t, i) ==
    LET closing == {j \in (i + 1)..Len(t) : t[j] = Q}
    IN  IF closing = {} THEN 0 ELSE Min(closing)

NotJson == [ok |-> FALSE, obj |-> <<>>]

\* the members of an object from the key at i on; a repeated key keeps its
\* last value
RECURSIVE Members(_, _, _)
Members(t, i, obj) ==
    LET ke == IF At(t, i) = Q THEN StringEnd(t, i) ELSE 0
        c == SkipWs(t, ke + 1)
        v == SkipWs(t, c + 1)
        ve == IF ke # 0 /\ At(t, c) = ":" /\ At(t, v) = Q THEN StringEnd(t, v) ELSE 0
        n == SkipWs(t, ve + 1)
    IN  IF ke = 0 \/ ve = 0 THEN NotJson
        ELSE LET more == [x \in (DOMAIN obj) \cup {SubSeq(t, i + 1, ke - 1)} |->
                             IF x = SubSeq(t, i + 1, ke - 1) THEN SubSeq(t, v + 1, ve - 1)
                             ELSE obj[x]]
             IN  IF At(t, n) = "," THEN Members(t, SkipWs(t, n + 1), more)
                 ELSE IF At(t, n) = "}" /\ SkipWs(t, n + 1) > Len(t)
                 THEN [ok |-> TRUE, obj |-> more]
                 ELSE NotJson

\* json.loads of an object whose values are strings: ok is FALSE where it
\* raises; keys and values are the token runs between their quotes
json_loads(t) ==
    LET b == SkipWs(t, 1)
        m == SkipWs(t, b + 1)
    IN  IF At(t, b) # "{" THEN NotJson
        ELSE IF At(t, m) = "}"
        THEN IF SkipWs(t, m + 1) > Len(t) THEN [ok |-> TRUE, obj |-> EmptyDict] ELSE NotJson
        ELSE Members(t, m, EmptyDict)

\* what lines 155-165 see of one script element
ScriptOf(t) ==
    LET found == ConfigSearch(t)
        loaded == IF found.found THEN json_loads(found.group) ELSE NotJson
    IN  Script(t # <<>> /\ Contains(t, <<"$Config", "=">>), found.found, loaded.ok,
               IF loaded.ok THEN loaded.obj ELSE EmptyDict)

(* ================= the page inspector, helper by helper ================ *)
\* the login state machine and the dashboard are not running
ProgramIdle ==
    /\ pc = "init"
    /\ initial_url = NoUrl
    /\ response = NoResponse
    /\ result = "" /\ outcome = ""
    /\ sent = <<>> /\ lastData = EmptyDict
    /\ kmsiSeen = FALSE
    /\ parseFailAt = "" /\ badAt = 0 /\ excAt = 0
    /\ challenge = NoResponse /\ timeout = 0 /\ elapsed = 0 /\ polls = 0
    /\ poll_response = NoResponse /\ surfaced = "" /\ waitReturn = ""
    /\ printed = <<>>
    /\ BrowserIdle
    /\ process_outputs = [k \in Kinds |-> [running |-> FALSE, output |-> <<>>, last_run |-> 0]]
    /\ threads = <<>>
    /\ ai_client = TRUE
    /\ reply = 0
    /\ clock = 1
    /\ quota = MaxRequests
    /\ clearing = ""

programVars == <<loginVars, histVars, waitVars, dashVars, printed, browserVars>>
inspectRest == <<programVars, retryVars, chunkVars, agendaVars>>
retryRest == <<programVars, inspectVars, chunkVars, agendaVars>>
chunkRest == <<programVars, inspectVars, retryVars, agendaVars>>
agendaRest == <<programVars, inspectVars, retryVars, chunkVars>>

\* a config whose server names its flow-token field after a credential field
CfgNamed == [sFT |-> "ft5", sFTName |-> "passwd", sCtx |-> "ctx5"]
\* a config with tokens and a pre-filled parameter set that holds credentials
CfgFilled == [sFT |-> "ft6", sCtx |-> "ctx6", apiCanary |-> "can6", hpgrequestid |-> "h6",
              oPostParams |-> [login |-> "old", loginfmt |-> "old", passwd |-> "oldpw",
                               flowToken |-> "ft6"]]

\* the configs the helper is called with
Configs == {EmptyDict, CfgLogin, CfgNoUrl, CfgMfa, CfgMfaWait, CfgKmsi, CfgNamed, CfgFilled}

\* script elements a page can carry
S_plain == <<"var", Sp, "$Config", "=", "{", Q, "sFT", Q, ":", Q, "ft1", Q, "}", ";">>
S_two ==
    <<"$Config", "=", "{", Q, "sFT", Q, ":", Q, "ft1", Q, ",", Sp, Q, "sCtx", Q, ":", Sp,
      Q, "c1", Q, "}", ";", "//]]>">>
S_brace ==
    <<"$Config", "=", "{", Q, "urlPost", Q, ":", Q, "/a", "}", ";", "b", Q, "}", ";">>
S_malformed == <<"$Config", "=", "{", Q, "sFT", Q, ":", "junk", "}", ";">>
S_nomatch == <<"$Config", "=", "junk", ";">>
S_spaced == <<"$Config", Sp, "=", Sp, "{", Q, "sFT", Q, ":", Q, "ft9", Q, "}", ";">>
S_other == <<"var", Sp, "x", "=", "{", "}", ";">>
S_src == <<>>
ScriptTexts == {S_plain, S_two, S_brace, S_malformed, S_nomatch, S_spaced, S_other, S_src}

\* form elements a page can carry
F_login ==
    Form("f1", U_ms_login,
         <<Input("loginfmt", FALSE, ""), Input("flowToken", TRUE, "ft0"),
           Input("", TRUE, "anon")>>)
F_options ==
    Form("f2", Rel(<<"/kmsi">>),
         <<Input("LoginOptions", TRUE, "0"), Input("ctx", TRUE, "c"),
           Input("LoginOptions", TRUE, "1")>>)
F_bare == Form("", NoUrl, <<>>)
FormElements == {F_login, F_options, F_bare}
FormIds == {"", "f1", "f2", "f3"}

SeqsUpTo(S, n) == UNION {[1..k -> S] : k \in 0..n}

\* the documents the helpers are exercised on
Docs ==
    {[scripts |-> ss, forms |-> <<>>] : ss \in SeqsUpTo(ScriptTexts, MaxScripts)}
    \cup {[scripts |-> <<>>, forms |-> fs] : fs \in SeqsUpTo(FormElements, MaxForms)}

\* BeautifulSoup(html_content, 'html.parser') with what lines 155-165 make
\* of each script element
Parsed(d) ==
    Html(NoUrl, <<>>, [i \in 1..Len(d.scripts) |-> ScriptOf(d.scripts[i])], d.forms, <<>>)

InspectInit ==
    /\ ProgramIdle /\ RetryIdle /\ ChunkIdle /\ AgendaIdle
    /\ ipc = "start" /\ doc \in Docs
    /\ got_config = EmptyDict /\ form_id = "" /\ got_form = NoForm
    /\ build_args = NoArgs /\ built = EmptyDict

\* one call of extract_config_from_script (login.py 147-167)
ExtractConfig ==
    /\ ipc = "start"
    /\ got_config' = extract_config_from_script(Parsed(doc))
    /\ ipc' = "config"
    /\ UNCHANGED <<doc, form_id, got_form, build_args, built, inspectRest>>

\* one call of extract_form_data (login.py 253-277)
ExtractForm ==
    /\ ipc = "start"
    /\ \E id \in FormIds :
         /\ form_id' = id
         /\ got_form' = extract_form_data(Parsed(doc), id)
    /\ ipc' = "form"
    /\ UNCHANGED <<doc, got_config, build_args, built, inspectRest>>

\* one call of build_form_data_from_config (login.py 169-251)
BuildForm ==
    /\ ipc = "start"
    /\ \E config \in Configs, username \in {"", Username}, password \in {"", Password},
          for_mfa \in BOOLEAN :
         /\ build_args' = [config |-> config, username |-> username,
                           password |-> password, for_mfa |-> for_mfa]
         /\ built' = build_form_data_from_config(config, username, password, for_mfa)
    /\ ipc' = "built"
    /\ UNCHANGED <<doc, got_config, form_id, got_form, inspectRest>>

InspectNext ==
    \/ ExtractConfig
    \/ ExtractForm
    \/ BuildForm

InspectSpec == InspectInit /\ [][InspectNext]_vars

(* ================= smart_wait_and_retry (run.py 131-151) ============== *)
\* what action_func can do: return a value or raise an exception
ActionValues == {"True", "False", "None"}
ActionErrors == {"TimeoutException", "NoSuchElementException"}
Returned(v) == [kind |-> "returned", value |-> v]
Raised(e) == [kind |-> "raised", value |-> e]
ActionOutcomes == {Returned(v) : v \in ActionValues} \cup {Raised(e) : e \in ActionErrors}

RetryInit ==
    /\ ProgramIdle /\ InspectIdle /\ ChunkIdle /\ AgendaIdle
    /\ rpc = "loop" /\ max_retries \in 0..MaxRetries /\ attempt = 0
    /\ outcomes = <<>> /\ retry_ret = NoOutcome

\* a falsy value is taken for a failed attempt
AfterCallRetryFalsy(ended, n, retries) ==
    IF ended.kind = "returned" /\ ended.value = "True" THEN "return"
    ELSE IF n = retries - 1 THEN (IF ended.kind = "raised" THEN "raise" ELSE "return")
    ELSE "retry"

\* run.py 144-149: what follows a call of action_func in attempt n
AfterCall(ended, n, retries) ==
    IF ended.kind = "returned" THEN "return"
    ELSE IF n = retries - 1 THEN "raise"
    ELSE "retry"

\* run.py 133-149: one turn of the loop: the wait, the call and what follows
RetryAttempt ==
    /\ rpc = "loop"
    /\ attempt < max_retries
    /\ \E ended \in ActionOutcomes :
         /\ outcomes' = Append(outcomes, ended)
         /\ IF AfterCall(ended, attempt, max_retries) = "retry"
            THEN attempt' = attempt + 1 /\ UNCHANGED <<rpc, retry_ret>>
            ELSE rpc' = "done" /\ retry_ret' = ended /\ UNCHANGED attempt
    /\ UNCHANGED <<max_retries, retryRest>>

\* run.py 151: the loop ran out without a return or a raise
RetryExhausted ==
    /\ rpc = "loop"
    /\ attempt >= max_retries
    /\ rpc' = "done" /\ retry_ret' = Returned("None")
    /\ UNCHANGED <<max_retries, attempt, outcomes, retryRest>>

RetryNext ==
    \/ RetryAttempt
    \/ RetryExhausted

RetrySpec == RetryInit /\ [][RetryNext]_vars

(* ============ the chunking part of plan_week (app.py 349-429) ========= *)
\* app.py 340-347, 356-364: lengths of the two prompt texts
system_chars == 1066
base_chars == 676
\* app.py 350-351
estimate_tokens(len) == len \div 4
\* app.py 354-355, 365
max_tokens == 1200
system_tokens == estimate_tokens(system_chars)
base_tokens == estimate_tokens(base_chars)
\* app.py 374: int(max_tokens * 0.1)
TenthOf(n) == n \div 10
\* app.py 374-375
buffer == Min({TenthOf(max_tokens), 500})
chunk_size == max_tokens - system_tokens - base_tokens - buffer
\* app.py 386
max_iterations == 1000

\* str.rfind('\n', lo, hi): the last line end in [lo, hi), -1 if none
Rfind(rep, lo, hi) ==
    LET found == {p \in rep.newlines : lo <= p /\ p < hi}
    IN  IF found = {} THEN 0 - 1
        ELSE CHOOSE p \in found : \A q \in found : q <= p

\* a line end at the start of the chunk is taken for a breaking point too
EndPosAtAnyNewline(rep, pos) ==
    LET end_pos == Min({pos + chunk_size * 4, rep.len})
        newline_pos == Rfind(rep, pos, end_pos)
    IN  IF end_pos < rep.len /\ newline_pos >= pos THEN newline_pos ELSE end_pos

\* app.py 393, 400-405: where the chunk that starts at pos ends
EndPos(rep, pos) ==
    LET end_pos == Min({pos + chunk_size * 4, rep.len})
        newline_pos == Rfind(rep, pos, end_pos)
    IN  IF end_pos < rep.len /\ newline_pos > pos THEN newline_pos ELSE end_pos

\* reports: short ones with line ends around the ends of the first windows, and
\* long ones whose line ends make every second chunk one character long
Window == chunk_size * 4
Threshold == (max_tokens - system_tokens - base_tokens + 1) * 4
ShortLens == {Threshold - 1, Threshold, 2 * Window, 2 * Window + 1}
NewlineSpots == {0, 1, Window - 1, Window, Window + 1, Threshold - 1, 2 * Window - 1}
FewOf(S, n) == {T \in SUBSET S : Cardinality(T) <= n}
ShortReports ==
    {[len |-> l, newlines |-> {p \in T : p < l}] :
        l \in ShortLens, T \in FewOf(NewlineSpots, MaxNewlines)}
LongReport(k, tail) ==
    [len |-> k * (Window + 1) + tail,
     newlines |-> {i * (Window + 1) + 1 : i \in 0..(k - 1)}]
LongReports ==
    {LongReport(max_iterations \div 2, 0), LongReport(max_iterations \div 2 - 1, 1)}
Reports == ShortReports \cup LongReports

ChunkInit ==
    /\ ProgramIdle /\ InspectIdle /\ RetryIdle /\ AgendaIdle
    /\ kpc = "estimate" /\ report_content \in Reports
    /\ current_pos = 0 /\ iteration = 0 /\ chunks = <<>>
    /\ sent_chunks = 0 /\ plan_end = ""

\* app.py 366-381: the estimate and the decision to chunk
EstimateTokens ==
    /\ kpc = "estimate"
    /\ LET total_tokens ==
               system_tokens + base_tokens + estimate_tokens(report_content.len)
       IN  IF total_tokens > max_tokens
           THEN IF chunk_size <= 0 \/ chunk_size < 100
                THEN kpc' = "done" /\ plan_end' = "too large to chunk"
                ELSE kpc' = "loop" /\ UNCHANGED plan_end
           ELSE kpc' = "single" /\ UNCHANGED plan_end
    /\ UNCHANGED <<report_content, current_pos, iteration, chunks, sent_chunks, chunkRest>>

\* app.py 388-414: one turn of the chunking loop
ChunkStep ==
    /\ kpc = "loop"
    /\ current_pos < report_content.len /\ iteration < max_iterations
    /\ iteration' = iteration + 1
    /\ LET end_pos == EndPos(report_content, current_pos)
       IN  IF Min({current_pos + chunk_size * 4, report_content.len}) <= current_pos
           THEN kpc' = "after" /\ UNCHANGED <<chunks, current_pos>>
           ELSE IF end_pos <= current_pos
           THEN kpc' = "after" /\ UNCHANGED <<chunks, current_pos>>
           ELSE /\ chunks' = Append(chunks, [from |-> current_pos, to |-> end_pos])
                /\ current_pos' = end_pos
                /\ UNCHANGED kpc
    /\ UNCHANGED <<report_content, sent_chunks, plan_end, chunkRest>>

\* app.py 388, 416-429: the loop is left; the two checks before sending
ChunkLoopExit ==
    /\ \/ kpc = "after"
       \/ /\ kpc = "loop"
          /\ ~(current_pos < report_content.len /\ iteration < max_iterations)
    /\ IF iteration >= max_iterations
       THEN kpc' = "done" /\ plan_end' = "Maximum iterations"
       ELSE IF Len(chunks) = 0
       THEN kpc' = "done" /\ plan_end' = "No chunks were created"
       ELSE kpc' = "send" /\ UNCHANGED plan_end
    /\ UNCHANGED <<report_content, current_pos, iteration, chunks, sent_chunks, chunkRest>>

\* app.py 432-478: one chunk is sent; after the last the plan is written
SendChunk ==
    /\ kpc = "send"
    /\ sent_chunks < Len(chunks)
    /\ sent_chunks' = sent_chunks + 1
    /\ IF sent_chunks + 1 = Len(chunks)
       THEN kpc' = "done" /\ plan_end' = "Planning completed"
       ELSE UNCHANGED <<kpc, plan_end>>
    /\ UNCHANGED <<report_content, current_pos, iteration, chunks, chunkRest>>

\* app.py 480-502: the report goes out in one message
SendWhole ==
    /\ kpc = "single"
    /\ kpc' = "done" /\ plan_end' = "Planning completed"
    /\ UNCHANGED <<report_content, current_pos, iteration, chunks, sent_chunks, chunkRest>>

\* app.py 538-541: a call of the AI raises
SendFails ==
    /\ kpc \in {"send", "single"}
    /\ kpc' = "done" /\ plan_end' = "Error"
    /\ UNCHANGED <<report_content, current_pos, iteration, chunks, sent_chunks, chunkRest>>

ChunkNext ==
    \/ EstimateTokens
    \/ ChunkStep
    \/ ChunkLoopExit
    \/ SendChunk
    \/ SendWhole
    \/ SendFails

ChunkSpec == ChunkInit /\ [][ChunkNext]_vars

(* ======== extract_assignments_from_dashboard (run.py 247-387) ========= *)
\* date-times are minutes; a day has 1440 of them
DayMinutes == 24 * 60
\* the date headings of the agenda and the day each names in the current year
\* (run.py 331-335: strptime of the heading with the current year added)
DateOf ==
    [x \in {"Sun, 23 Nov", "Mon, 24 Nov", "Mon, 1 Dec", "Mon, 8 Dec"} |->
        CASE x = "Sun, 23 Nov" -> 0
          [] x = "Mon, 24 Nov" -> 1
          [] x = "Mon, 1 Dec" -> 8
          [] x = "Mon, 8 Dec" -> 15]
\* run.py 337: strptime(time_clean, "%H:%M")
ClockOf ==
    [x \in {"09:00", "16:00"} |-> IF x = "09:00" THEN 9 * 60 ELSE 16 * 60]
\* datetime.now() at run.py 274: Mon, 24 Nov, 12:00
Noon == 1 * DayMinutes + 12 * 60

\* run.py 327: time_str.replace('Due ', '').replace('Starts at ', '').strip()
TimeClean(time_str) == SelectSeq(time_str, LAMBDA t : t \notin {"Due ", "Starts at "})

\* run.py 330-341: the date-time of an item; Absent when strptime raises
EventDatetime(date, time_clean) ==
    IF date \in DOMAIN DateOf /\ Len(time_clean) = 1 /\ time_clean[1] \in DOMAIN ClockOf
    THEN DateOf[date] * DayMinutes + ClockOf[time_clean[1]]
    ELSE 0 - 1

\* the lower end of the range is not tested
InRangeUpTo(now, event_datetime) == event_datetime <= now + 14 * DayMinutes

\* run.py 275, 344: today <= event_datetime <= two_weeks
InRange(now, event_datetime) ==
    now <= event_datetime /\ event_datetime <= now + 14 * DayMinutes

\* run.py 348
UniqueId(title, event_datetime, course) == <<title, "|", event_datetime, "|", course>>

AgendaItem(heading, icon, title, time_str, course) ==
    [heading |-> heading, icon |-> icon, title |-> title, time_str |-> time_str,
     course |-> course]
NoTime == <<>>
ItemCatalog ==
    {AgendaItem("Mon, 24 Nov", "icon-quiz", "Quiz 1", <<"Due ", "16:00">>, "C111 Finance I"),
     AgendaItem(NoDate, "icon-assignment", "Quiz 1", <<"16:00">>, "C111 Finance I"),
     AgendaItem("Mon, 1 Dec", "icon-assignment", "Essay", <<"Due ", "09:00">>, "C111 Finance I"),
     AgendaItem("Mon, 24 Nov", "icon-assignment", "Essay", <<"Due ", "09:00">>, "Unknown Course"),
     AgendaItem("Mon, 8 Dec", "icon-assignment", "Essay", <<"Due ", "16:00">>, "C111 Finance I"),
     AgendaItem("Mon, 8 Dec", "icon-calendar-month", "Lecture", <<"Starts at ", "09:00">>, "C111 Finance I"),
     AgendaItem(NoDate, "icon-calendar-month", "Lecture", <<"09:00">>, "C111 Finance I"),
     AgendaItem("Mon, 1 Dec", "icon-calendar-month", "Untitled", <<"All day">>, "Unknown Course"),
     AgendaItem("Sun, 23 Nov", "", "Lecture", NoTime, "C111 Finance I")}
Agendas == UNION {[1..n -> ItemCatalog] : n \in 0..MaxItems}

\* run.py 353-362, 365-374: the entry made of an item
Entry(type, title, course, event_datetime) ==
    [title |-> title, course |-> course, type |-> type, due_datetime |-> event_datetime]

\* list.sort(key=due_datetime): a stable sort in ascending order
RECURSIVE InsertByDate(_, _)
InsertByDate(e, list) ==
    IF list = <<>> THEN <<e>>
    ELSE IF e.due_datetime < Head(list).due_datetime THEN <<e>> \o list
    ELSE <<Head(list)>> \o InsertByDate(e, Tail(list))
RECURSIVE SortByDate(_)
SortByDate(list) ==
    IF list = <<>> THEN <<>>
    ELSE InsertByDate(list[Len(list)], SortByDate(SubSeq(list, 1, Len(list) - 1)))

AgendaInit ==
    /\ ProgramIdle /\ InspectIdle /\ RetryIdle /\ ChunkIdle
    /\ xpc = "start" /\ agenda_items \in Agendas /\ item_no = 0 /\ today = 0
    /\ current_date = NoDate /\ seen_assignments = {} /\ seen_events = {}
    /\ assignments = <<>> /\ events = <<>>

\* run.py 253-279: the agenda page is opened and read; the navigation can raise
OpenAgenda ==
    /\ xpc = "start"
    /\ \/ xpc' = "loop" /\ today' = Noon
       \/ xpc' = "raised" /\ UNCHANGED today
    /\ UNCHANGED <<agenda_items, item_no, current_date, seen_assignments, seen_events,
                   assignments, events, agendaRest>>

\* run.py 284-378: one agenda item
ParseItem ==
    /\ xpc = "loop"
    /\ item_no < Len(agenda_items)
    /\ item_no' = item_no + 1
    /\ LET item == agenda_items[item_no + 1]
           date == IF item.heading # NoDate THEN item.heading ELSE current_date
           is_assignment == item.icon = "icon-assignment"
           is_quiz == item.icon = "icon-quiz"
           is_event == item.icon = "icon-calendar-month"
           time_clean == TimeClean(item.time_str)
           event_datetime == EventDatetime(date, time_clean)
           unique_id == UniqueId(item.title, event_datetime, item.course)
       IN  /\ current_date' = date
           /\ IF date = NoDate \/ item.time_str = NoTime
              THEN UNCHANGED <<seen_assignments, seen_events, assignments, events>>
              ELSE IF event_datetime < 0
              THEN UNCHANGED <<seen_assignments, seen_events, assignments, events>>
              ELSE IF ~InRange(today, event_datetime)
              THEN UNCHANGED <<seen_assignments, seen_events, assignments, events>>
              ELSE IF (is_assignment \/ is_quiz) /\ unique_id \notin seen_assignments
              THEN /\ seen_assignments' = seen_assignments \cup {unique_id}
                   /\ assignments' =
                          Append(assignments,
                                 Entry(IF is_quiz THEN "Quiz" ELSE "Assignment",
                                       item.title, item.course, event_datetime))
                   /\ UNCHANGED <<seen_events, events>>
              ELSE IF is_event /\ unique_id \notin seen_events
              THEN /\ seen_events' = seen_events \cup {unique_id}
                   /\ events' = Append(events, Entry("Event", item.title, item.course,
                                                     event_datetime))
                   /\ UNCHANGED <<seen_assignments, assignments>>
              ELSE UNCHANGED <<seen_assignments, seen_events, assignments, events>>
    /\ UNCHANGED <<xpc, agenda_items, today, agendaRest>>

\* run.py 380-387: both lists are sorted by date and True is returned
SortLists ==
    /\ xpc = "loop"
    /\ item_no = Len(agenda_items)
    /\ assignments' = SortByDate(assignments)
    /\ events' = SortByDate(events)
    /\ xpc' = "done"
    /\ UNCHANGED <<agenda_items, item_no, today, current_date, seen_assignments,
                   seen_events, agendaRest>>

AgendaNext ==
    \/ OpenAgenda
    \/ ParseItem
    \/ SortLists

AgendaSpec == AgendaInit /\ [][AgendaNext]_vars

(* ============================== claims =============================== *)
Posts == {i \in 1..Len(sent) : sent[i].method = "POST"}
SentKinds == {sent[i].kind : i \in 1..Len(sent)}
Running(kind) == {i \in 1..Len(threads) : threads[i].kind = kind /\ threads[i].pc = "running"}

\* C1: for each task kind, at most one worker of that kind is executing at
\* any time, under any interleaving of start requests and worker threads.
C1_AtMostOneWorkerPerKind == \A k \in Kinds : Cardinality(Running(k)) <= 1

\* C2: once step 5 has seen the stay-signed-in marker, a POST carrying
\* LoginOptions = "1" has been sent before the outcome is classified.
C2_KmsiPromptIsAnswered ==
    (kmsiSeen /\ pc \in {"classify", "done"}) =>
        ("kmsi" \in SentKinds /\ Get(lastData, "LoginOptions", "") = DontStaySignedIn)

\* C3: a non-2xx status on any request ends the attempt as Failed, and the
\* request that received it is the last one sent (stated for runs with no
\* other fault).
C3_NonOkStatusIsFatal ==
    (badAt # 0 /\ excAt = 0 /\ parseFailAt = "") => (pc = "done" /\ result = "None" /\ Len(sent) = badAt)

\* C4: a transport exception on any request, a second-factor poll included,
\* ends the attempt as Failed, and the failed request is the last one sent
\* (stated for runs with no other fault).
C4_TransportErrorIsFatal ==
    (excAt # 0 /\ badAt = 0 /\ parseFailAt = "") => (pc = "done" /\ result = "None" /\ Len(sent) = excAt)

\* C5: a parse failure at any step ends the attempt as Failed (stated for
\* runs with no other fault), and only the poll request is ever sent more
\* than once.
C5_ParseFailureIsFatal ==
    /\ (parseFailAt # "" /\ badAt = 0 /\ excAt = 0) => (pc = "done" /\ result = "None")
    /\ \A i, j \in 1..Len(sent) : (i < j /\ sent[i].kind = sent[j].kind) => sent[i].kind = "poll"

\* C6: when the deadline elapses without approval, wait_for_auth_approval
\* returns, without failing, the response of the most recent poll (stated
\* for runs with no other fault).
C6_TimeoutReturnsLastPoll ==
    (pc = "kmsi" /\ waitReturn = "timeout" /\ polls > 0
        /\ badAt = 0 /\ excAt = 0 /\ parseFailAt = "") =>
        (result = "" /\ response = poll_response)

\* the display code of a challenge page, as the operator would read it
CodeOn(r) == extract_approval_number(Body(r))
CarriesCode(r) == r # NoResponse /\ CodeOn(r) \notin {"None", ""}

\* C7: whenever a poll request is sent for a challenge page that carries a
\* display code, that code was shown to the operator before the request.
C7_CodeSurfacedBeforePoll ==
    [][(polls' = polls + 1 /\ CarriesCode(challenge)) => surfaced = CodeOn(challenge)]_vars

C7_Witness == polls > 0 /\ CarriesCode(challenge) /\ surfaced = "12-34"

\* the approval condition, stated on the page contents
NoPendingText(r) ==
    /\ ~Contains(Text(Body(r)), <<"Authenticator">>)
    /\ ~Contains(Text(Body(r)), <<"displaySign">>)
LooksApproved(r, given) == NoPendingText(r) /\ Body(r).url # Body(given).url

\* C8: the last poll response was returned as approved exactly when it has
\* no pending marker and its URL differs from the challenge page's URL;
\* otherwise it was not returned and polling went on.
C8_ApprovedExactlyWhenMovedOn ==
    (polls > 0 /\ poll_response # NoResponse) =>
        /\ LooksApproved(poll_response, challenge) <=> (waitReturn = "approved")
        /\ (waitReturn = "approved" /\ pc = "kmsi") => response = poll_response
        /\ (waitReturn = "" ) => pc = "poll"

C8_Witness == waitReturn = "approved" /\ polls > 1 /\ pc = "kmsi"

CeilDiv(a, b) == (a + b - 1) \div b

\* C9: the poll loop terminates: while it runs a step is always possible,
\* every step that stays in the loop sends one poll after the same 3 second
\* sleep, and at most ceil(timeout / interval) polls are sent.
C9_PollLoopBounded ==
    /\ [](polls <= CeilDiv(timeout, 3))
    /\ []((pc = "poll") => ENABLED (PollLoop \/ PollTimeout))
    /\ [][(pc = "poll" /\ pc' = "poll") => polls' = polls + 1]_vars
    /\ [][(polls' = polls + 1) =>
            (elapsed' - elapsed >= 3 /\ elapsed' - elapsed <= 3 + MaxReqTime)]_vars

C9_Witness == pc = "kmsi" /\ waitReturn = "timeout" /\ polls = CeilDiv(timeout, 3) /\ polls > 1

\* a URL of the authenticated target with no login/auth marker
LandsOnTarget(url) ==
    LET u == Lower(UrlStr(url))
    IN  /\ Contains(u, <<"learning.london.edu">>) \/ Contains(u, <<"london.instructure.com">>)
        /\ \A m \in {"login", "auth", "microsoft", "saml"} : ~Contains(u, <<m>>)

ThreeTrips ==
    <<[kind |-> "initial", method |-> "GET"], [kind |-> "username", method |-> "POST"],
      [kind |-> "password", method |-> "POST"]>>

HasText(r, tok) == Contains(Text(Body(r)), <<tok>>)
NoSecondFactorText(r) ==
    \A m \in {"Authenticator", "ConvergedTFA", "PhoneAppNotification"} : ~HasText(r, m)
NoKmsiText(r) == \A m \in {"Stay signed in", "KmsiInterrupt"} : ~HasText(r, m)
UrlOnTargetHost(r) ==
    \E h \in {"learning.london.edu", "london.instructure.com"} :
        Contains(Lower(UrlStr(Body(r).url)), <<h>>)
NoFault == badAt = 0 /\ excAt = 0 /\ parseFailAt = ""

\* the run met a two-hop challenge: no stored session answered the initial
\* fetch, no SAML hop was asked for, every fetch succeeded and parsed
TwoHopRun ==
    /\ pc = "done" /\ NoFault
    /\ outcome \notin {"already", "no_url"}
    /\ "saml" \notin SentKinds
    /\ challenge = NoResponse /\ ~kmsiSeen
    /\ NoSecondFactorText(response) /\ NoKmsiText(response) /\ UrlOnTargetHost(response)

Classifying == pc \in {"mfa", "kmsi", "classify"}

\* C12: a response whose final URL matches the authenticated-target
\* pattern, with none of the markers login, auth, microsoft, saml, is
\* classified Authenticated whatever its body contains: the sequencer
\* passes it on unchanged, sends nothing more, asks for no approval, and
\* the run that holds it at its end returns the session.
C12_TargetUrlIsAuthenticated ==
    /\ [][(Classifying /\ LandsOnTarget(Body(response).url)) =>
              \/ pc' = "done" /\ result' = "session"
              \/ pc' \in {"kmsi", "classify"} /\ response' = response /\ sent' = sent]_vars
    /\ []((pc = "done" /\ Len(sent) >= 3 /\ NoFault /\ response.status = 200
              /\ LandsOnTarget(Body(response).url)) => result = "session")

HasLowerText(r, tok) == Contains(Lower(Text(Body(r))), <<tok>>)
HasErrorText(r) == HasLowerText(r, "error") \/ HasLowerText(r, "incorrect")
KnownErrorTexts(r) ==
    {Strip(Body(r).divs[i].text) :
        i \in {j \in 1..Len(Body(r).divs) : Body(r).divs[j].id \in {"errorText", "passwordError"}}}
FailedWithMessage(r, line) ==
    /\ Len(line) = 2 /\ line[1] = "Login failed:"
    /\ IF KnownErrorTexts(r) # {} THEN line[2] \in KnownErrorTexts(r)
       ELSE line[2] = "Check your credentials"

\* the final response falls through the marker and URL rules
FallsThrough(r) == NoSecondFactorText(r) /\ NoKmsiText(r) /\ ~UrlOnTargetHost(r)

\* C13: a final response with no second-factor marker and no
\* stay-signed-in marker, whose URL is not on the authenticated target and
\* whose text contains an explicit error marker, is classified Failed:
\* login returns None and prints the text of the known error element when
\* the page has one, a generic message otherwise.
C13_ErrorMarkerIsFailed ==
    [][(pc = "classify" /\ FallsThrough(response) /\ HasErrorText(response)) =>
           (pc' = "done" /\ result' = "None" /\ FailedWithMessage(response, printed'))]_vars

AmbiguityWarning == <<"Login appears successful (verification ambiguous)">>

\* C14: a final response that matches none of the classification rules (no
\* second-factor marker, no stay-signed-in marker, URL not on the
\* authenticated target, no error marker) is treated as Authenticated:
\* login returns the session and prints the ambiguity warning.
C14_NoRuleIsAmbiguousSuccess ==
    [][(pc = "classify" /\ FallsThrough(response) /\ ~HasErrorText(response)) =>
           (pc' = "done" /\ result' = "session" /\ printed' = AmbiguityWarning)]_vars

RunFile == SessionFile(app)
Range(seq) == {seq[i] : i \in 1..Len(seq)}
CookieKeys(set) == {<<c.name, c.value, c.domain, c.path>> : c \in set}
AuthenticatedRun == login_ret \in {"True", "session"}
FailedRun == login_ret \in {"False", "None"}

\* C15: a login run that ends Authenticated has, by the time it reports
\* success, captured the cookies the session then holds and written them to
\* its session file; a run that ends Failed never writes the session file.
C15_SuccessPersistsSession ==
    /\ AuthenticatedRun =>
          /\ wrote = "ok" /\ files[RunFile].state = "ok"
          /\ captured[RunFile].made /\ Range(captured[RunFile].list) = browser
    /\ FailedRun => wrote = ""

\* C16: when the write of the session file cannot complete, save_session
\* hands the error to its caller: no login run reports success after a
\* failed write of the session file.
C16_FailedWriteIsNotSuccess ==
    (wrote \notin {"", "ok"}) => ~AuthenticatedRun

\* load_and_restore_cookies has just returned
JustRestored == restored # "" /\ bpc \in {"probe", "manual"} /\ probe = "" /\ manual = ""
FileCookies ==
    {RestoredCookie(files[RunFile].data[i], DefaultDomain(app)) :
        i \in 1..Len(files[RunFile].data)}

\* C17: load_and_restore_cookies returns false when the session file does
\* not exist and when no cookie of the file could be injected; when it
\* returns true, every cookie of the file was either injected or, its
\* injection having failed, skipped.
C17_RestoreVerdict ==
    JustRestored =>
        /\ files[RunFile].state = "missing" => restored = "no_file"
        /\ (files[RunFile].state = "ok" /\ FileCookies # {} /\ injected = {}) =>
              restored # "True"
        /\ restored = "True" =>
              CookieKeys(FileCookies) = CookieKeys(injected) \cup CookieKeys(rejected)

\* C18: when a session file written by persist from a captured cookie list
\* is restored into a fresh browser, every injected cookie has the name,
\* value, domain and path of a captured cookie, and the injected set equals
\* the captured set when the browser refused no cookie.
C18_RoundTrip ==
    (JustRestored /\ restored = "True" /\ captured[RunFile].made) =>
        /\ CookieKeys(injected) \subseteq CookieKeys(Range(captured[RunFile].list))
        /\ rejected = {} => CookieKeys(injected) = CookieKeys(Range(captured[RunFile].list))

\* a URL that does not show an authenticated session of the run's site
LooksLoggedOut(url) ==
    LET u == Lower(UrlStr(url))
    IN  \/ \E w \in {"login", "auth", "microsoft", "saml"} : Contains(u, <<w>>)
        \/ ~Contains(u, IF app = "book" THEN <<"lbsmobile.london.edu">>
                        ELSE <<"learning.london.edu">>)
NothingReported == login_ret = "" /\ run_ret = ""
FellThrough == restored = "no_file" \/ probe = "invalid"

\* C19: in login_with_cookies a restored session that fails the validity
\* probe is handled as a missing session file is: in both cases the run
\* goes on to the full manual login with nothing reported, and from there
\* its result is the result of the manual login alone.
C19_InvalidSessionIsNoSession ==
    /\ [][(bpc = "probe" /\ probe' \notin {"", "raised"} /\ LooksLoggedOut(current_url')) =>
              (probe' = "invalid" /\ bpc' = "manual" /\ NothingReported')]_vars
    /\ [][(bpc = "restore" /\ restored' = "no_file") =>
              (bpc' = "manual" /\ NothingReported')]_vars
    /\ []((bpc = "manual" /\ FellThrough) =>
              (NothingReported /\ ENABLED (wait_for_manual_login /\ bpc' = "waiting")))
    /\ []((FellThrough /\ bpc # "save") =>
              /\ login_ret \in {"", "True", "False"}
              /\ login_ret = "True" <=> manual \in {"observed", "timeout_on_site"}
              /\ login_ret = "False" <=> manual \in {"error", "timeout"})

C19_Witness == probe = "invalid" /\ manual = "observed" /\ login_ret = "True"

\* C20: in a run of RoomBooker.run the booking form is submitted, and a room
\* booked, only after the login of that run succeeded on a session whose
\* validity was established: the probe of the restored session found it
\* authenticated, or the manual login was seen to arrive on the site.
C20_BookingOnlyOnValidSession ==
    (submitted # "") =>
        /\ app = "book" /\ login_ret = "True"
        /\ \/ probe = "valid"
           \/ manual = "observed"
           \/ manual = "timeout_on_site" /\ ~LooksLoggedOut(current_url)

CredentialFields == {"login", "loginfmt", "passwd"}
MfaCall == ipc = "built" /\ build_args.for_mfa
TokenName(config) == IF "sFTName" \in DOMAIN config THEN config["sFTName"] ELSE "flowToken"
TokenValues(config) ==
    {config[f] : f \in {"sFT", "sCtx", "canary", "apiCanary", "hpgrequestid", "sessionId"}
                        \cap DOMAIN config}

\* C21 as stated: the form built with for_mfa=True has no login, loginfmt or
\* passwd field, for every config and every username/password argument.
C21_MfaFormNoCredentialFields == MfaCall => DOMAIN built \cap CredentialFields = {}

\* C21 amended: the form built with for_mfa=True has no field besides the
\* flow-token field (named by the config's sFTName, flowToken by default),
\* ctx, canary and hpgrequestid, every value is one of the config's token
\* values, and it has no login, loginfmt or passwd field unless the config
\* names its flow-token field so.
C21_MfaFormOnlyTokens ==
    MfaCall =>
        LET config == build_args.config
        IN  /\ DOMAIN built \subseteq {TokenName(config), "ctx", "canary", "hpgrequestid"}
            /\ \A k \in DOMAIN built : built[k] \in TokenValues(config)
            /\ TokenName(config) \notin CredentialFields
                   => DOMAIN built \cap CredentialFields = {}

C21_Witness ==
    /\ MfaCall
    /\ build_args.config = CfgFilled
    /\ build_args.username = Username /\ build_args.password = Password
    /\ built = [flowToken |-> "ft6", ctx |-> "ctx6", canary |-> "can6", hpgrequestid |-> "h6"]

NoObject == [present |-> FALSE, obj |-> EmptyDict]
Object(obj) == [present |-> TRUE, obj |-> obj]
\* the well-formed object each script element of the catalogue embeds after
\* the marker $Config=, read off its text
EmbeddedObject(t) ==
    CASE t = S_plain -> Object(<<"sFT">> :> <<"ft1">>)
      [] t = S_two -> Object((<<"sFT">> :> <<"ft1">>) @@ (<<"sCtx">> :> <<"c1">>))
      [] t = S_brace -> Object(<<"urlPost">> :> <<"/a", "}", ";", "b">>)
      [] OTHER -> NoObject
Embedding(d) == {i \in 1..Len(d.scripts) : EmbeddedObject(d.scripts[i]).present}

\* C22: extract_config_from_script returns the empty mapping for HTML with
\* no script carrying the marker and for a marker followed by malformed
\* JSON, and a mapping equal to the embedded object whenever a well-formed
\* embedded object is present (the last one when several scripts embed one).
C22_ConfigEqualsEmbeddedObject ==
    ipc = "config" =>
        IF Embedding(doc) = {} THEN got_config = EmptyDict
        ELSE got_config =
                 EmbeddedObject(doc.scripts[CHOOSE i \in Embedding(doc) :
                                                \A j \in Embedding(doc) : j <= i]).obj

Matching(d, id) == {i \in 1..Len(d.forms) : id = "" \/ d.forms[i].id = id}
FirstForm(d, id) == d.forms[CHOOSE i \in Matching(d, id) : \A j \in Matching(d, id) : i <= j]
Named(f) == {i \in 1..Len(f.inputs) : f.inputs[i].name # ""}
ValueOf(input) == IF input.hasValue THEN input.value ELSE ""

Stage(kind) ==
    CASE kind \in {"initial", "saml"} -> 0
      [] kind = "username" -> 1
      [] kind = "password" -> 2
      [] kind \in {"mfa_init", "mfa_begin", "mfa_endauth", "poll"} -> 3
      [] kind = "kmsi" -> 4
AnsweredOk(i) == (badAt = 0 \/ badAt > i) /\ (excAt = 0 \/ excAt > i)

\* C24: the login sequencer only moves forward: the requests are sent in the
\* order of the stages, the username, password and keep-signed-in POSTs at
\* most once; the password is posted only directly after a username POST
\* that returned successfully; the second-factor and keep-signed-in requests
\* come only after the password POST; once login() has returned no further
\* request is sent.
C24_SequencerMovesForward ==
    /\ [](\A i, j \in 1..Len(sent) :
            /\ i < j => Stage(sent[i].kind) <= Stage(sent[j].kind)
            /\ (i < j /\ sent[i].kind = sent[j].kind)
                   => sent[i].kind \notin {"initial", "username", "password", "kmsi"})
    /\ [](\A i \in 1..Len(sent) :
            /\ sent[i].kind = "password"
                   => i > 1 /\ sent[i - 1].kind = "username" /\ AnsweredOk(i - 1)
            /\ Stage(sent[i].kind) \in {3, 4}
                   => \E j \in 1..(i - 1) : sent[j].kind = "password" /\ AnsweredOk(j))
    /\ [][pc = "done" => (pc' = "done" /\ sent' = sent /\ result' = result)]_vars
    /\ [][sent' = sent \/ (pc # "done" /\ Len(sent') = Len(sent) + 1
                           /\ SubSeq(sent', 1, Len(sent)) = sent)]_vars

C24_Witness ==
    /\ pc = "done" /\ result = "session"
    /\ {"initial", "username", "password", "mfa_init", "poll", "kmsi"} \subseteq SentKinds

ClearPassed == clearing = "" /\ clearing' # ""
ClearWritten == clearing # "" /\ clearing' = ""
Emptied(k) == process_outputs[k].output # <<>> /\ process_outputs'[k].output = <<>>

\* C25: a clear request gets past the test only for a known kind whose
\* running flag it finds not set; nothing but a request that got past the
\* test empties an output or is answered 200 (a request for a running or
\* an unknown kind is answered with the error and changes nothing); the
\* request that got past it empties that kind's output and changes neither
\* its running flag nor its last_run nor any other kind's entry.
C25_ClearOutputFrame ==
    /\ [][ClearPassed =>
             /\ clearing' \in Kinds
             /\ ~process_outputs[clearing'].running
             /\ process_outputs' = process_outputs /\ reply' = reply]_vars
    /\ [][((\E k \in Kinds : Emptied(k)) \/ (reply' = 200 /\ reply # 200))
             => ClearWritten]_vars
    /\ [][(reply' = 400 /\ reply # 400) => process_outputs' = process_outputs]_vars
    /\ [][ClearWritten =>
             /\ reply' = 200
             /\ process_outputs'[clearing].output = <<>>
             /\ process_outputs'[clearing].running = process_outputs[clearing].running
             /\ process_outputs'[clearing].last_run = process_outputs[clearing].last_run
             /\ \A k \in Kinds \ {clearing} : process_outputs'[k] = process_outputs[k]]_vars

C25_Witness ==
    /\ clearing = "" /\ reply = 200
    /\ process_outputs["llm"] = [running |-> FALSE, output |-> <<>>, last_run |-> 1]
    /\ \E i \in 1..Len(threads) : threads[i].kind = "llm" /\ threads[i].pc = "finished"

HasSetFlag(i) == i \in DOMAIN threads /\ threads[i].pc = "running"
HasLeft(i) == i \in DOMAIN threads /\ threads[i].pc = "finished"

\* C26: every worker that has set its kind's running flag eventually
\* leaves, whatever its exit path (completion, early return, exception),
\* and the step by which it leaves sets the flag to False; the subprocess or
\* AI call it waits on is assumed to return.
C26_WorkerResetsRunning ==
    /\ \A i \in 1..MaxRequests : HasSetFlag(i) ~> HasLeft(i)
    /\ [][\A i \in DOMAIN threads :
            (HasSetFlag(i) /\ threads'[i].pc = "finished")
                => ~process_outputs'[threads[i].kind].running]_vars

C26_Witness ==
    /\ HasLeft(1) /\ threads[1].endpoint = "plan_week"
    /\ process_outputs["llm"].output = <<"Planning your week with AI...", "report not found">>
    /\ ~process_outputs["llm"].running

AllRaised(n) == \A i \in 1..n : outcomes[i].kind = "raised"

\* C28: smart_wait_and_retry calls the action at most max_retries times and
\* again only after an attempt raised; it returns the value of the first
\* attempt that does not raise (also when that value is False), and when all
\* max_retries attempts raise it raises the exception of the last one.
C28_RetryOnlyAfterRaise ==
    /\ Len(outcomes) <= max_retries
    /\ AllRaised(Len(outcomes) - 1)
    /\ rpc = "loop" => AllRaised(Len(outcomes))
    /\ (rpc = "done" /\ outcomes # <<>>) => retry_ret = outcomes[Len(outcomes)]
    /\ (rpc = "done" /\ outcomes # <<>> /\ AllRaised(Len(outcomes)))
           => Len(outcomes) = max_retries

C28_Witness ==
    /\ rpc = "done" /\ max_retries = 3 /\ Len(outcomes) = 2
    /\ outcomes[1].kind = "raised" /\ retry_ret = Returned("False")

SendsInChunks == kpc = "send" \/ sent_chunks > 0
NonEmpty(c) == c.from < c.to
Tiles(cs, len) ==
    /\ cs # <<>>
    /\ cs[1].from = 0
    /\ cs[Len(cs)].to = len
    /\ \A i \in 1..(Len(cs) - 1) : cs[i + 1].from = cs[i].to

\* C27: whenever plan_week sends the report in chunks, the chunking loop has
\* terminated, every chunk is non-empty and at most chunk_size * 4 characters
\* long, and the chunks in order make up the report content exactly.
C27_ChunksTileTheReport ==
    SendsInChunks =>
        /\ current_pos >= report_content.len \/ iteration >= max_iterations
        /\ \A i \in 1..Len(chunks) :
              NonEmpty(chunks[i]) /\ chunks[i].to - chunks[i].from <= chunk_size * 4
        /\ Tiles(chunks, report_content.len)

C27_Witness ==
    /\ sent_chunks = 3 /\ Len(chunks) = 3
    /\ chunks[1].to \in report_content.newlines
    /\ chunks[2].to - chunks[2].from = chunk_size * 4

ManualReturnedTrue == bpc = "save" /\ manual \in {"observed", "timeout_on_site"}
OnSiteAndMarkerFree(url) ==
    LET u == Lower(UrlStr(url))
        hosts == IF app = "book" THEN {"lbsmobile.london.edu"}
                 ELSE {"learning.london.edu", "london.instructure.com"}
    IN  /\ \E h \in hosts : Contains(u, <<h>>)
        /\ \A w \in {"login", "auth", "microsoft", "saml"} : ~Contains(u, <<w>>)

\* C29: wait_for_manual_login returns True only if the browser's current URL
\* was seen on the target host and free of the markers login, auth, microsoft
\* and saml; when the timeout elapses with the browser still on a login or
\* auth page it returns False.
C29_ManualTrueOnlyWhenAuthenticated ==
    ManualReturnedTrue => OnSiteAndMarkerFree(current_url)

Extracted == xpc = "done"
Key(e) == <<e.title, e.due_datetime, e.course>>
NoTwoAlike(list) ==
    \A i, j \in 1..Len(list) : Key(list[i]) = Key(list[j]) => i = j
WithinTwoWeeks(list) ==
    \A i \in 1..Len(list) :
        today <= list[i].due_datetime /\ list[i].due_datetime <= today + 14 * 24 * 60
Ascending(list) ==
    \A i \in 1..(Len(list) - 1) : list[i].due_datetime <= list[i + 1].due_datetime

\* C30: after extract_assignments_from_dashboard on a fresh StudyGroupManager
\* the assignments list and the events list each hold no two entries with the
\* same (title, date-time, course), every entry's date-time lies between the
\* extraction time and 14 days later, and each list is in ascending order of
\* date-time.
C30_ListsUniqueInRangeSorted ==
    Extracted =>
        /\ NoTwoAlike(assignments) /\ NoTwoAlike(events)
        /\ WithinTwoWeeks(assignments) /\ WithinTwoWeeks(events)
        /\ Ascending(assignments) /\ Ascending(events)

C30_Witness ==
    /\ Extracted /\ Len(agenda_items) = 3 /\ Len(assignments) = 2
    /\ agenda_items[1].heading = "Mon, 1 Dec"
    /\ assignments[1].type = "Quiz" /\ assignments[2].title = "Essay"

====
